---------------------------- MODULE Spec2Model ----------------------------
(***************************************************************************)
(* RSVP dashboard data layer: column resolver, record parser, filter       *)
(* engine and aggregator of site/src/hooks/useGuestData.ts, with the       *)
(* follow-up list of site/src/components/FollowUpList.tsx.                 *)
(*                                                                         *)
(* A JavaScript string is a sequence of one-character strings, so that     *)
(* trim, toLowerCase, includes and === are computed character by           *)
(* character.  A raw row (Record<string,string>) is a sequence of          *)
(* [key, value] columns with distinct keys, in Object.keys order.          *)
(***************************************************************************)
EXTENDS Integers, Sequences, FiniteSets, TLC

VARIABLES
    raw,          \* the raw row handed to getColumnValue / parseGuest
    patterns,     \* the ordered pattern list handed to getColumnValue
    resolved,     \* result of the last getColumnValue call
    statusIn,     \* the value handed to parseRSVPStatus
    statusOut,    \* result of the last parseRSVPStatus call
    parsed,       \* result of the last parseGuest call
    csvData,      \* results.data of the loaded file (rows, in file order)
    guests,       \* useState guests
    loading,      \* useState loading
    error,        \* useState error
    lastUpdated,  \* useState lastUpdated
    filters,      \* useState filters
    pc,           \* position of fetchData
    aborted,      \* abortController.signal.aborted
    rendered,     \* what useGuestData returned at the last render (useMemo values)
    records,      \* the record set handed to the aggregator
    aggregated,   \* result of the last aggregation of records
    aggregations, \* number of aggregations of records so far
    viewGuests,   \* the guests prop of GuestTable / FollowUpList
    exportedRows, \* the records written by the last Export CSV
    exportKind,   \* which view wrote the last export
    csvContent,   \* the text of the last exported file
    reparsed,     \* the records read back from csvContent
    guestTable,   \* GuestTable's view state (search, RSVP filter, sorting, grouping, pagination)
    followUpList, \* FollowUpList's view state (sort field and direction, search, filters)
    clicks,       \* the last two column headers clicked in FollowUpList, older first
    now,          \* Date.now() in milliseconds, relative to the first render
    targetDate,   \* the deadline handed to CountdownCard, on the same scale
    timeRemaining,\* useState timeRemaining of CountdownCard
    ticks         \* number of calls of the interval callback so far

vars == <<raw, patterns, resolved, statusIn, statusOut, parsed, csvData,
          guests, loading, error, lastUpdated, filters, pc, aborted, rendered,
          records, aggregated, aggregations, viewGuests, exportedRows, exportKind, csvContent,
          reparsed, guestTable, followUpList, clicks, now, targetDate, timeRemaining,
          ticks>>

resolverVars == <<raw, patterns, resolved>>
parserVars == <<statusIn, statusOut, parsed>>
hookVars == <<csvData, guests, loading, error, lastUpdated, filters, pc, aborted,
              rendered>>
aggregatorVars == <<records, aggregated, aggregations>>
viewStateVars == <<guestTable, followUpList, clicks>>
exportVars == <<viewGuests, exportedRows, exportKind, csvContent, reparsed, viewStateVars>>
countdownVars == <<now, targetDate, timeRemaining, ticks>>

-----------------------------------------------------------------------------
(* String literals of the source.                                          *)

sAttending ==
    <<"A", "t", "t", "e", "n", "d", "i", "n", "g">>
sDeclined ==
    <<"D", "e", "c", "l", "i", "n", "e", "d">>
sNoResponse ==
    <<"N", "o", " ", "R", "e", "s", "p", "o", "n", "s", "e">>
sNotInvited ==
    <<"N", "o", "t", " ", "I", "n", "v", "i", "t", "e", "d">>
sBride ==
    <<"B", "r", "i", "d", "e">>
sGroom ==
    <<"G", "r", "o", "o", "m">>
sUnknown ==
    <<"U", "n", "k", "n", "o", "w", "n">>
sAll ==
    <<"A", "l", "l">>
hFirst_Name ==
    <<"F", "i", "r", "s", "t", "_", "N", "a", "m", "e">>
hFirstName ==
    <<"F", "i", "r", "s", "t", " ", "N", "a", "m", "e">>
hLast_Name ==
    <<"L", "a", "s", "t", "_", "N", "a", "m", "e">>
hLastName ==
    <<"L", "a", "s", "t", " ", "N", "a", "m", "e">>
hRelationship ==
    <<"R", "e", "l", "a", "t", "i", "o", "n", "s", "h", "i", "p">>
hSide ==
    <<"S", "i", "d", "e">>
hBride_or_Groom ==
    <<"B", "r", "i", "d", "e", "_", "o", "r", "_", "G", "r", "o", "o", "m">>
hTitle ==
    <<"T", "i", "t", "l", "e">>
hSuffix ==
    <<"S", "u", "f", "f", "i", "x">>
hEmail ==
    <<"E", "m", "a", "i", "l">>
hPhone ==
    <<"P", "h", "o", "n", "e">>
hAddress ==
    <<"A", "d", "d", "r", "e", "s", "s">>
hRSVP_Saumya ==
    <<"R", "S", "V", "P", "_", "S", "a", "u", "m", "y", "a", "s", "_", "V", "i", "d", "h", "i", "_", "a", "n", "d", "_", "H", "a", "a", "l", "d", "i">>
hSaumya ==
    <<"S", "a", "u", "m", "y", "a", "'", "s", " ", "V", "i", "d", "h", "i", " ", "&", " ", "H", "a", "a", "l", "d", "i">>
pSaumya ==
    <<"s", "a", "u", "m", "y", "a">>
hRSVP_Mahek ==
    <<"R", "S", "V", "P", "_", "M", "a", "h", "e", "k", "s", "_", "V", "i", "d", "h", "i", "_", "a", "n", "d", "_", "H", "a", "a", "l", "d", "i">>
hMahek ==
    <<"M", "a", "h", "e", "k", "'", "s", " ", "V", "i", "d", "h", "i", " ", "&", " ", "H", "a", "a", "l", "d", "i">>
pMahek ==
    <<"m", "a", "h", "e", "k">>
hRSVP_Wedding ==
    <<"R", "S", "V", "P", "_", "W", "e", "d", "d", "i", "n", "g">>
hWedding ==
    <<"W", "e", "d", "d", "i", "n", "g">>
hRSVP_Reception ==
    <<"R", "S", "V", "P", "_", "R", "e", "c", "e", "p", "t", "i", "o", "n">>
hReception ==
    <<"R", "e", "c", "e", "p", "t", "i", "o", "n">>

-----------------------------------------------------------------------------
(* JavaScript values and string primitives.                                *)

\* the value undefined (not a string: its one element is not a character)
undefined ==
    <<"<undefined>">>

\* the value null of error / lastUpdated
null ==
    <<"<null>">>

\* a thrown TypeError, as the result of an expression
TypeError ==
    <<"<TypeError>">>

emptyString ==
    <<>>

UpperCase ==
    <<"A","B","C","D","E","F","G","H","I","J","K","L","M",
      "N","O","P","Q","R","S","T","U","V","W","X","Y","Z">>

LowerCase ==
    <<"a","b","c","d","e","f","g","h","i","j","k","l","m",
      "n","o","p","q","r","s","t","u","v","w","x","y","z">>

\* String.prototype.toLowerCase on one character
LowerChar ==
    [c \in {UpperCase[i] : i \in 1..26} |->
        LowerCase[CHOOSE i \in 1..26 : UpperCase[i] = c]]

toLowerCase(s) ==
    [i \in 1..Len(s) |-> IF s[i] \in DOMAIN LowerChar THEN LowerChar[s[i]] ELSE s[i]]

\* white space removed by String.prototype.trim
WhiteSpace ==
    {" ", "\t", "\n"}

RECURSIVE trimStart(_)
trimStart(s) ==
    IF s # <<>> /\ Head(s) \in WhiteSpace THEN trimStart(Tail(s)) ELSE s

RECURSIVE trimEnd(_)
trimEnd(s) ==
    IF s # <<>> /\ s[Len(s)] \in WhiteSpace
    THEN trimEnd(SubSeq(s, 1, Len(s) - 1)) ELSE s

trim(s) ==
    trimEnd(trimStart(s))

\* String.prototype.includes
includes(s, sub) ==
    \E i \in 0..(Len(s) - Len(sub)) : SubSeq(s, i + 1, i + Len(sub)) = sub

\* truthiness of a string-or-undefined value
Truthy(v) ==
    v # undefined /\ v # emptyString

\* a || b
OrElse(a, b) ==
    IF Truthy(a) THEN a ELSE b

\* raw[k]
Get(r, k) ==
    IF \E i \in 1..Len(r) : r[i].key = k
    THEN r[CHOOSE i \in 1..Len(r) : r[i].key = k].value
    ELSE undefined

\* index of the first element of 1..n satisfying P, 0 when there is none
FirstIndex(n, P(_)) ==
    IF \E i \in 1..n : P(i)
    THEN CHOOSE i \in 1..n : P(i) /\ \A j \in 1..(i - 1) : ~P(j)
    ELSE 0

\* keys.find(k => k.toLowerCase().includes(lowerPattern))
FindKey(r, pattern) ==
    LET lowerPattern == toLowerCase(pattern)
        hit(i) == includes(toLowerCase(r[i].key), lowerPattern)
        i == FirstIndex(Len(r), hit)
    IN  IF i = 0 THEN undefined ELSE r[i].key

-----------------------------------------------------------------------------
(* Column resolver: useGuestData.ts getColumnValue.                        *)

\* getColumnValue with the partial-match loop run before the exact-match loop
getColumnValue_partialFirst(r, pats) ==
    LET exact(i) == Get(r, pats[i]) # undefined
        e == FirstIndex(Len(pats), exact)
        partial(i) == Truthy(FindKey(r, pats[i]))
        p == FirstIndex(Len(pats), partial)
    IN  IF p # 0 THEN Get(r, FindKey(r, pats[p]))
        ELSE IF e # 0 THEN Get(r, pats[e])
        ELSE emptyString

getColumnValue(r, pats) ==
    LET exact(i) == Get(r, pats[i]) # undefined
        e == FirstIndex(Len(pats), exact)
        partial(i) == Truthy(FindKey(r, pats[i]))
        p == FirstIndex(Len(pats), partial)
    IN  IF e # 0 THEN Get(r, pats[e])
        ELSE IF p # 0 THEN Get(r, FindKey(r, pats[p]))
        ELSE emptyString

-----------------------------------------------------------------------------
(* Record parser: useGuestData.ts parseRSVPStatus, parseBrideOrGroom,      *)
(* parseGuest.                                                             *)

\* value?.trim()
optionalTrim(value) ==
    IF value = undefined THEN undefined ELSE trim(value)

\* parseRSVPStatus without the trim
parseRSVPStatus_noTrim(value) ==
    LET normalized == OrElse(value, emptyString)
    IN  IF normalized = sAttending THEN sAttending
        ELSE IF normalized = sDeclined THEN sDeclined
        ELSE IF normalized = sNotInvited THEN sNotInvited
        ELSE sNoResponse

\* parseRSVPStatus reading an empty value as Not Invited
parseRSVPStatus_emptyNotInvited(value) ==
    LET normalized == OrElse(optionalTrim(value), emptyString)
    IN  IF normalized = sAttending THEN sAttending
        ELSE IF normalized = sDeclined THEN sDeclined
        ELSE IF normalized = sNotInvited \/ normalized = emptyString THEN sNotInvited
        ELSE sNoResponse

parseRSVPStatus(value) ==
    LET normalized == OrElse(optionalTrim(value), emptyString)
    IN  IF normalized = sAttending THEN sAttending
        ELSE IF normalized = sDeclined THEN sDeclined
        ELSE IF normalized = sNotInvited THEN sNotInvited
        ELSE sNoResponse

\* parseBrideOrGroom normalising case and white space first
parseBrideOrGroom_lenient(value) ==
    LET v == IF value = undefined THEN emptyString ELSE toLowerCase(trim(value))
    IN  IF v = toLowerCase(sBride) THEN sBride
        ELSE IF v = toLowerCase(sGroom) THEN sGroom
        ELSE sUnknown

\* parseBrideOrGroom handing back an unrecognised value
parseBrideOrGroom_passthrough(value) ==
    IF value = sBride THEN sBride
    ELSE IF value = sGroom THEN sGroom
    ELSE value

parseBrideOrGroom(value) ==
    IF value = sBride THEN sBride
    ELSE IF value = sGroom THEN sGroom
    ELSE sUnknown

\* the pattern lists parseGuest hands to getColumnValue, one per tracked event
saumyaPatterns ==
    <<hRSVP_Saumya, hSaumya, pSaumya>>

mahekPatterns ==
    <<hRSVP_Mahek, hMahek, pMahek>>

weddingPatterns ==
    <<hRSVP_Wedding, hWedding>>

receptionPatterns ==
    <<hRSVP_Reception, hReception>>

parseGuest(r) ==
    LET firstName == OrElse(Get(r, hFirst_Name), OrElse(Get(r, hFirstName), emptyString))
        lastName == OrElse(Get(r, hLast_Name), OrElse(Get(r, hLastName), emptyString))
        side == OrElse(Get(r, hRelationship), OrElse(Get(r, hSide), sUnknown))
        brideOrGroom ==
            IF Get(r, hSide) = sBride \/ Get(r, hSide) = sGroom
            THEN parseBrideOrGroom(Get(r, hSide))
            ELSE parseBrideOrGroom(Get(r, hBride_or_Groom))
    IN  [ title |-> OrElse(Get(r, hTitle), emptyString),
          firstName |-> firstName,
          lastName |-> lastName,
          suffix |-> OrElse(Get(r, hSuffix), emptyString),
          saumyaVidhiHaaldi |-> parseRSVPStatus(getColumnValue(r, saumyaPatterns)),
          mahekVidhiHaaldi |-> parseRSVPStatus(getColumnValue(r, mahekPatterns)),
          wedding |-> parseRSVPStatus(getColumnValue(r, weddingPatterns)),
          reception |-> parseRSVPStatus(getColumnValue(r, receptionPatterns)),
          side |-> side,
          brideOrGroom |-> brideOrGroom,
          email |-> OrElse(Get(r, hEmail), emptyString),
          phone |-> OrElse(Get(r, hPhone), emptyString),
          address |-> OrElse(Get(r, hAddress), emptyString) ]

-----------------------------------------------------------------------------
(* Filter engine: useGuestData.ts filteredGuests.                          *)

\* fullName without the separating space
fullName_noSeparator(guest) ==
    guest.firstName \o guest.lastName

\* `${guest.firstName} ${guest.lastName}`
fullName(guest) ==
    guest.firstName \o <<" ">> \o guest.lastName

\* passesFilters comparing the side without regard to case
passesFilters_sideIgnoreCase(guest, f) ==
    IF f.brideOrGroom # sAll /\ guest.brideOrGroom # f.brideOrGroom THEN FALSE
    ELSE IF f.rsvpStatus # sAll /\ guest.wedding # f.rsvpStatus THEN FALSE
    ELSE IF f.side # sAll /\ toLowerCase(guest.side) # toLowerCase(f.side) THEN FALSE
    ELSE IF Truthy(f.searchQuery)
            /\ ~includes(toLowerCase(guest.firstName \o <<" ">> \o guest.lastName),
                         toLowerCase(f.searchQuery))
         THEN FALSE
    ELSE TRUE

\* the callback of guests.filter: one early return per predicate
passesFilters(guest, f) ==
    IF f.brideOrGroom # sAll /\ guest.brideOrGroom # f.brideOrGroom THEN FALSE
    ELSE IF f.rsvpStatus # sAll /\ guest.wedding # f.rsvpStatus THEN FALSE
    ELSE IF f.side # sAll /\ guest.side # f.side THEN FALSE
    ELSE IF Truthy(f.searchQuery)
            /\ ~includes(toLowerCase(fullName(guest)), toLowerCase(f.searchQuery))
         THEN FALSE
    ELSE TRUE

\* filteredGuests returning the matches last to first
filteredGuests_reversed(gs, f) ==
    LET kept == SelectSeq(gs, LAMBDA guest : passesFilters(guest, f))
    IN  [i \in 1..Len(kept) |-> kept[Len(kept) + 1 - i]]

filteredGuests(gs, f) ==
    SelectSeq(gs, LAMBDA guest : passesFilters(guest, f))

-----------------------------------------------------------------------------
(* Aggregator: useGuestData.ts summaryStats.                               *)

\* xs.filter(P).length
CountWhere(xs, P(_)) ==
    Cardinality({i \in 1..Len(xs) : P(xs[i])})

\* a reducer that counts a Not Invited record as one without response
RECURSIVE reduceStats_elseNoResponse(_, _)
reduceStats_elseNoResponse(fg, acc) ==
    IF fg = <<>> THEN acc
    ELSE LET guest == Head(fg)
             a1 == IF guest.wedding = sAttending
                   THEN [acc EXCEPT !.attending = @ + 1]
                   ELSE IF guest.wedding = sDeclined
                   THEN [acc EXCEPT !.declined = @ + 1]
                   ELSE [acc EXCEPT !.noResponse = @ + 1]
         IN  reduceStats_elseNoResponse(Tail(fg), a1)

\* the reducer of filteredGuests.reduce
RECURSIVE reduceStats(_, _)
reduceStats(fg, acc) ==
    IF fg = <<>> THEN acc
    ELSE LET guest == Head(fg)
             a1 == IF guest.wedding = sAttending
                   THEN [acc EXCEPT !.attending = @ + 1]
                   ELSE IF guest.wedding = sDeclined
                   THEN [acc EXCEPT !.declined = @ + 1]
                   ELSE IF guest.wedding = sNoResponse
                   THEN [acc EXCEPT !.noResponse = @ + 1]
                   ELSE acc
             a2 == IF guest.brideOrGroom = sBride
                   THEN [a1 EXCEPT !.brideGuests = @ + 1]
                   ELSE IF guest.brideOrGroom = sGroom
                   THEN [a1 EXCEPT !.groomGuests = @ + 1]
                   ELSE a1
         IN  reduceStats(Tail(fg), a2)

\* totalInvited counting the Not Invited records too
totalInvited_all(fg) ==
    Len(fg)

totalInvited(fg) ==
    CountWhere(fg, LAMBDA g : g.wedding # sNotInvited)

\* the tracked events, in the order of the events array
events ==
    <<[key |-> "saumyaVidhiHaaldi", name |-> hSaumya],
      [key |-> "mahekVidhiHaaldi", name |-> hMahek],
      [key |-> "wedding", name |-> hWedding],
      [key |-> "reception", name |-> hReception]>>

sideEvents ==
    <<[key |-> "wedding", name |-> hWedding],
      [key |-> "reception", name |-> hReception]>>

\* brideAttending and groomAttending counting the group's records of any status
eventStatsOf_groupTotals(fg, ev) ==
    [ event |-> ev.name,
      attending |-> CountWhere(fg, LAMBDA g : g[ev.key] = sAttending),
      declined |-> CountWhere(fg, LAMBDA g : g[ev.key] = sDeclined),
      noResponse |-> CountWhere(fg, LAMBDA g : g[ev.key] = sNoResponse),
      notInvited |-> CountWhere(fg, LAMBDA g : g[ev.key] = sNotInvited),
      brideAttending |-> CountWhere(fg, LAMBDA g : g.brideOrGroom = sBride),
      groomAttending |-> CountWhere(fg, LAMBDA g : g.brideOrGroom = sGroom) ]

eventStatsOf(fg, ev) ==
    [ event |-> ev.name,
      attending |-> CountWhere(fg, LAMBDA g : g[ev.key] = sAttending),
      declined |-> CountWhere(fg, LAMBDA g : g[ev.key] = sDeclined),
      noResponse |-> CountWhere(fg, LAMBDA g : g[ev.key] = sNoResponse),
      notInvited |-> CountWhere(fg, LAMBDA g : g[ev.key] = sNotInvited),
      brideAttending |->
          CountWhere(fg, LAMBDA g : g[ev.key] = sAttending /\ g.brideOrGroom = sBride),
      groomAttending |->
          CountWhere(fg, LAMBDA g : g[ev.key] = sAttending /\ g.brideOrGroom = sGroom) ]

sideEventStatsOf(fg, ev, side) ==
    [ side |-> side,
      event |-> ev.name,
      attending |-> CountWhere(fg, LAMBDA g : g[ev.key] = sAttending /\ g.brideOrGroom = side),
      declined |-> CountWhere(fg, LAMBDA g : g[ev.key] = sDeclined /\ g.brideOrGroom = side),
      noResponse |-> CountWhere(fg, LAMBDA g : g[ev.key] = sNoResponse /\ g.brideOrGroom = side) ]

\* a JavaScript number that is a quotient: num / den, compared exactly
Quotient(n, d) ==
    [num |-> n, den |-> d]

\* totalInvited > 0 ? (totalResponded / totalInvited) * 100 : 0
responseRateOf(totalResponded, invited) ==
    IF invited > 0 THEN Quotient(totalResponded * 100, invited) ELSE Quotient(0, 1)

\* the rate over all four status counts of the event
eventCardRate_overAll(event) ==
    LET total == event.attending + event.declined + event.noResponse + event.notInvited
    IN  IF total > 0 THEN Quotient((event.attending + event.declined) * 100, total)
        ELSE Quotient(0, 1)

\* SummaryCards.tsx, per-event card: total > 0 ?
\* ((event.attending + event.declined) / total * 100) : 0
eventCardRate(event) ==
    LET total == event.attending + event.declined + event.noResponse
    IN  IF total > 0 THEN Quotient((event.attending + event.declined) * 100, total)
        ELSE Quotient(0, 1)

summaryStats(fg) ==
    LET stats == reduceStats(fg, [attending |-> 0, declined |-> 0, noResponse |-> 0,
                                  brideGuests |-> 0, groomGuests |-> 0])
        totalResponded == stats.attending + stats.declined
    IN  [ totalGuests |-> Len(fg),
          totalAttending |-> stats.attending,
          totalDeclined |-> stats.declined,
          totalNoResponse |-> stats.noResponse,
          responseRate |-> responseRateOf(totalResponded, totalInvited(fg)),
          brideGuests |-> stats.brideGuests,
          groomGuests |-> stats.groomGuests,
          eventStats |-> [i \in 1..Len(events) |-> eventStatsOf(fg, events[i])],
          sideEventStats |->
              <<sideEventStatsOf(fg, sideEvents[1], sBride),
                sideEventStatsOf(fg, sideEvents[1], sGroom),
                sideEventStatsOf(fg, sideEvents[2], sBride),
                sideEventStatsOf(fg, sideEvents[2], sGroom)>> ]

-----------------------------------------------------------------------------
(* Aggregator: useGuestData.ts relationshipStats (and, with the same code, *)
(* FollowUpList.tsx groupedByRelationship).                                *)

\* the property names every object literal inherits from Object.prototype
ObjectPrototypeKeys ==
    {<<"c", "o", "n", "s", "t", "r", "u", "c", "t", "o", "r">>,
     <<"_", "_", "d", "e", "f", "i", "n", "e", "G", "e", "t", "t", "e", "r", "_", "_">>,
     <<"_", "_", "d", "e", "f", "i", "n", "e", "S", "e", "t", "t", "e", "r", "_", "_">>,
     <<"h", "a", "s", "O", "w", "n", "P", "r", "o", "p", "e", "r", "t", "y">>,
     <<"_", "_", "l", "o", "o", "k", "u", "p", "G", "e", "t", "t", "e", "r", "_", "_">>,
     <<"_", "_", "l", "o", "o", "k", "u", "p", "S", "e", "t", "t", "e", "r", "_", "_">>,
     <<"i", "s", "P", "r", "o", "t", "o", "t", "y", "p", "e", "O", "f">>,
     <<"p", "r", "o", "p", "e", "r", "t", "y", "I", "s", "E", "n", "u", "m", "e", "r", "a", "b", "l", "e">>,
     <<"t", "o", "S", "t", "r", "i", "n", "g">>,
     <<"v", "a", "l", "u", "e", "O", "f">>,
     <<"_", "_", "p", "r", "o", "t", "o", "_", "_">>,
     <<"t", "o", "L", "o", "c", "a", "l", "e", "S", "t", "r", "i", "n", "g">>}

\* the value of a decimal digit
DigitValue ==
    [c \in {"0", "1", "2", "3", "4", "5", "6", "7", "8", "9"} |->
        CHOOSE n \in 0..9 : <<"0", "1", "2", "3", "4", "5", "6", "7", "8", "9">>[n + 1] = c]

\* a < b for two digit strings without leading zeros, as numbers
NumericLess(a, b) ==
    \/ Len(a) < Len(b)
    \/ /\ Len(a) = Len(b)
       /\ \E i \in 1..Len(a) :
             /\ DigitValue[a[i]] < DigitValue[b[i]]
             /\ \A j \in 1..(i - 1) : a[j] = b[j]

\* 2^32 - 2, the largest array index
maxArrayIndex ==
    <<"4", "2", "9", "4", "9", "6", "7", "2", "9", "4">>

\* an integer-like property name: the canonical decimal form of an array index
IsArrayIndex(s) ==
    /\ Len(s) >= 1
    /\ \A i \in 1..Len(s) : s[i] \in DOMAIN DigitValue
    /\ Len(s) > 1 => s[1] # "0"
    /\ ~NumericLess(maxArrayIndex, s)

\* counts[guest.side]: an own property, else an inherited one, else undefined
HasProperty(counts, key) ==
    \/ \E i \in 1..Len(counts) : counts[i].relationship = key
    \/ key \in ObjectPrototypeKeys

\* the body of filteredGuests.forEach; counts lists the own properties in the
\* order they were created
RECURSIVE countSides(_, _)
countSides(fg, counts) ==
    IF fg = <<>> THEN counts
    ELSE LET guest == Head(fg)
             c1 == IF ~HasProperty(counts, guest.side)
                   THEN Append(counts, [relationship |-> guest.side, count |-> 0,
                                        brideOrGroom |-> guest.brideOrGroom])
                   ELSE counts
             \* counts[guest.side].count++ lands on the own property when there
             \* is one, on the inherited function or object otherwise
             c2 == [i \in 1..Len(c1) |->
                       IF c1[i].relationship = guest.side
                       THEN [c1[i] EXCEPT !.count = @ + 1]
                       ELSE c1[i]]
         IN  countSides(Tail(fg), c2)

\* integer-like names in ascending numeric order
RECURSIVE sortIndexKeys(_, _)
sortIndexKeys(todo, done) ==
    IF todo = <<>> THEN done
    ELSE LET x == Head(todo)
             larger == {i \in 1..Len(done) :
                           NumericLess(x.relationship, done[i].relationship)}
             at == IF larger = {} THEN Len(done) + 1
                   ELSE CHOOSE i \in larger : \A j \in larger : i <= j
         IN  sortIndexKeys(Tail(todo),
                 SubSeq(done, 1, at - 1) \o <<x>> \o SubSeq(done, at, Len(done)))

\* Object.entries(counts): integer-like names first, ascending, then the
\* other names in creation order
objectEntries(counts) ==
    sortIndexKeys(SelectSeq(counts, LAMBDA e : IsArrayIndex(e.relationship)), <<>>)
        \o SelectSeq(counts, LAMBDA e : ~IsArrayIndex(e.relationship))

\* Array.prototype.sort((a, b) => b.count - a.count): stable, count descending
RECURSIVE sortByCountDesc(_, _)
sortByCountDesc(todo, done) ==
    IF todo = <<>> THEN done
    ELSE LET x == Head(todo)
             smaller == {i \in 1..Len(done) : done[i].count < x.count}
             at == IF smaller = {} THEN Len(done) + 1
                   ELSE CHOOSE i \in smaller : \A j \in smaller : i <= j
         IN  sortByCountDesc(Tail(todo),
                 SubSeq(done, 1, at - 1) \o <<x>> \o SubSeq(done, at, Len(done)))

\* a counts object that outlives the call: it starts from the entries of the
\* previous result
newCounts_kept ==
    IF aggregations = 0 THEN <<>> ELSE aggregated.relationshipStats

\* const counts = {}: a fresh object on every call
newCounts ==
    <<>>

relationshipStats(fg) ==
    sortByCountDesc(objectEntries(countSides(fg, newCounts)), <<>>)

-----------------------------------------------------------------------------
(* What useGuestData returns for a record set and a filter value.          *)

\* the statistics computed over all the records, whatever the filters
hookReturn_unfiltered(gs, f) ==
    [ guests |-> filteredGuests(gs, f),
      summaryStats |-> summaryStats(gs),
      relationshipStats |-> relationshipStats(gs) ]

\* the three useMemo values; each is recomputed when guests or filters change
hookReturn(gs, f) ==
    LET fg == filteredGuests(gs, f)
    IN  [ guests |-> fg,
          summaryStats |-> summaryStats(fg),
          relationshipStats |-> relationshipStats(fg) ]

-----------------------------------------------------------------------------
(* Follow-up list: FollowUpList.tsx noResponseGuests.                      *)

noResponseGuests(gs) ==
    SelectSeq(gs, LAMBDA g : g.wedding = sNoResponse)


-----------------------------------------------------------------------------
(* Guest table (part_002): filteredGuests, at given search and RSVP filter. *)

tableFilteredGuests_nameOnly(gs, searchQuery, rsvpFilter) ==
    SelectSeq(gs, LAMBDA guest :
        /\ Truthy(searchQuery) =>
              includes(toLowerCase(fullName(guest)), toLowerCase(searchQuery))
        /\ rsvpFilter # sAll => guest.wedding = rsvpFilter)

tableFilteredGuests(gs, searchQuery, rsvpFilter) ==
    SelectSeq(gs, LAMBDA guest :
        /\ Truthy(searchQuery) =>
              \/ includes(toLowerCase(fullName(guest)), toLowerCase(searchQuery))
              \/ includes(toLowerCase(guest.side), toLowerCase(searchQuery))
        /\ rsvpFilter # sAll => guest.wedding = rsvpFilter)

-----------------------------------------------------------------------------
(* Follow-up list: FollowUpList.tsx filteredGuests at a given view state   *)
(* [sortField, sortDirection, searchQuery, filterSide, filterRelationship]. *)

\* the order in which the default collation places the characters the
\* compared values are made of: space, digits, letters
Collation ==
    <<" ", "0", "1", "2", "3", "4", "5", "6", "7", "8", "9">> \o LowerCase

collationRank(c) ==
    IF \E i \in 1..Len(Collation) : Collation[i] = c
    THEN CHOOSE i \in 1..Len(Collation) : Collation[i] = c
    ELSE 0

\* String.prototype.localeCompare in the default collation, on strings of
\* letters, digits and spaces: letters compare without case first, a prefix
\* sorts before the longer string, and on a tie the lower-case letter sorts
\* before the upper-case one
localeCompare(a, b) ==
    LET la == toLowerCase(a)
        lb == toLowerCase(b)
        n == IF Len(a) < Len(b) THEN Len(a) ELSE Len(b)
        primary == {i \in 1..n : la[i] # lb[i]}
        tertiary == {i \in 1..n : a[i] # b[i]}
        first(S) == CHOOSE i \in S : \A j \in S : i <= j
    IN  IF primary # {}
        THEN IF collationRank(la[first(primary)]) < collationRank(lb[first(primary)])
             THEN -1 ELSE 1
        ELSE IF Len(a) # Len(b)
        THEN IF Len(a) < Len(b) THEN -1 ELSE 1
        ELSE IF tertiary # {}
        THEN IF a[first(tertiary)] = la[first(tertiary)] THEN -1 ELSE 1
        ELSE 0

sName ==
    <<"n", "a", "m", "e">>
sRelationship ==
    <<"r", "e", "l", "a", "t", "i", "o", "n", "s", "h", "i", "p">>
sSideField ==
    <<"s", "i", "d", "e">>
sAsc ==
    <<"a", "s", "c">>
sDesc ==
    <<"d", "e", "s", "c">>

\* the switch (sortField) of the comparator
sortValue(g, sortField) ==
    IF sortField = sName THEN toLowerCase(fullName(g))
    ELSE IF sortField = sRelationship THEN toLowerCase(g.side)
    ELSE IF sortField = sSideField THEN g.brideOrGroom
    ELSE emptyString

\* the comparator handed to sort
compareGuests(a, b, sortField, sortDirection) ==
    LET comparison == localeCompare(sortValue(a, sortField), sortValue(b, sortField))
    IN  IF sortDirection = sAsc THEN comparison ELSE 0 - comparison

\* [...result].sort(comparator): Array.prototype.sort is stable
RECURSIVE sortGuests(_, _, _, _)
sortGuests(todo, done, sortField, sortDirection) ==
    IF todo = <<>> THEN done
    ELSE LET x == Head(todo)
             later == {i \in 1..Len(done) :
                          compareGuests(done[i], x, sortField, sortDirection) > 0}
             at == IF later = {} THEN Len(done) + 1
                   ELSE CHOOSE i \in later : \A j \in later : i <= j
         IN  sortGuests(Tail(todo),
                 SubSeq(done, 1, at - 1) \o <<x>> \o SubSeq(done, at, Len(done)),
                 sortField, sortDirection)

\* the three filters of filteredGuests, applied to the list they start from
followUpFilters(result, st) ==
    LET searched ==
            IF Truthy(st.searchQuery)
            THEN SelectSeq(result, LAMBDA g :
                     \/ includes(toLowerCase(fullName(g)), toLowerCase(st.searchQuery))
                     \/ includes(toLowerCase(g.side), toLowerCase(st.searchQuery)))
            ELSE result
        sided ==
            IF st.filterSide # sAll
            THEN SelectSeq(searched, LAMBDA g : g.brideOrGroom = st.filterSide)
            ELSE searched
    IN  IF st.filterRelationship # sAll
        THEN SelectSeq(sided, LAMBDA g : g.side = st.filterRelationship)
        ELSE sided

followUpFilteredGuests_allStatuses(gs, st) ==
    sortGuests(followUpFilters(gs, st), <<>>, st.sortField, st.sortDirection)

followUpFilteredGuests(gs, st) ==
    sortGuests(followUpFilters(noResponseGuests(gs), st), <<>>,
               st.sortField, st.sortDirection)

\* uniqueRelationships without 'All': the relationships offered by the filter
uniqueRelationships(gs) ==
    {g.side : g \in {noResponseGuests(gs)[i] : i \in 1..Len(noResponseGuests(gs))}}

\* handleSort(field): the next [sortField, sortDirection]
handleSort_keepsDirection(st, field) ==
    IF st.sortField = field
    THEN [st EXCEPT !.sortDirection = IF @ = sAsc THEN sDesc ELSE sAsc]
    ELSE [st EXCEPT !.sortField = field]

handleSort(st, field) ==
    IF st.sortField = field
    THEN [st EXCEPT !.sortDirection = IF @ = sAsc THEN sDesc ELSE sAsc]
    ELSE [st EXCEPT !.sortField = field, !.sortDirection = sAsc]

-----------------------------------------------------------------------------
(* Export CSV: part_002 and FollowUpList.tsx (escaping), part_001 (not).   *)

quoteChar ==
    "\""

\* cell.replace(/"/g, '""')
RECURSIVE doubleQuotes(_)
doubleQuotes(cell) ==
    IF cell = <<>> THEN <<>>
    ELSE (IF Head(cell) = quoteChar THEN <<quoteChar, quoteChar>> ELSE <<Head(cell)>>)
             \o doubleQuotes(Tail(cell))

\* the cell between quotes, its own quotes left as they are
escapeCSV_noDoubling(cell) ==
    <<quoteChar>> \o OrElse(cell, emptyString) \o <<quoteChar>>

\* `"${(cell || '').replace(/"/g, '""')}"`
escapeCSV(cell) ==
    <<quoteChar>> \o doubleQuotes(OrElse(cell, emptyString)) \o <<quoteChar>>

\* `"${cell}"`
quoteCell(cell) ==
    <<quoteChar>> \o cell \o <<quoteChar>>

\* Array.prototype.join
RECURSIVE join(_, _)
join(parts, sep) ==
    IF parts = <<>> THEN <<>>
    ELSE IF Len(parts) = 1 THEN parts[1]
    ELSE parts[1] \o sep \o join(Tail(parts), sep)

hSaumyaVH ==
    <<"S", "a", "u", "m", "y", "a", "'", "s", " ", "V", "&", "H">>

hMahekVH ==
    <<"M", "a", "h", "e", "k", "'", "s", " ", "V", "&", "H">>

guestTableHeaders ==
    <<hTitle, hFirstName, hLastName, hSuffix, hSide, hRelationship, hSaumyaVH, hMahekVH,
      hWedding, hReception, hEmail, hPhone, hAddress>>

guestTableRow(g) ==
    <<g.title, g.firstName, g.lastName, g.suffix, g.brideOrGroom, g.side,
      g.saumyaVidhiHaaldi, g.mahekVidhiHaaldi, g.wedding, g.reception,
      g.email, g.phone, g.address>>

\* csvContent of GuestTable.exportToCSV (part_002)
guestTableCsv(fg) ==
    join(<<join(guestTableHeaders, <<",">>)>>
             \o [i \in 1..Len(fg) |->
                    join([j \in 1..Len(guestTableHeaders) |->
                             escapeCSV(guestTableRow(fg[i])[j])], <<",">>)],
         <<"\n">>)

followUpHeaders ==
    <<hFirstName, hLastName, hSide, hRelationship, hEmail, hPhone, hAddress>>

followUpRow(g) ==
    <<g.firstName, g.lastName, g.brideOrGroom, g.side, g.email, g.phone, g.address>>

\* csvContent of FollowUpList.exportToCSV
followUpCsv(fg) ==
    join(<<join(followUpHeaders, <<",">>)>>
             \o [i \in 1..Len(fg) |->
                    join([j \in 1..Len(followUpHeaders) |->
                             escapeCSV(followUpRow(fg[i])[j])], <<",">>)],
         <<"\n">>)

oldGuestTableHeaders ==
    <<hTitle, hFirstName, hLastName, hSuffix, hSide, hRelationship, hSaumyaVH, hMahekVH,
      hWedding, hReception>>

oldGuestTableRow(g) ==
    <<g.title, g.firstName, g.lastName, g.suffix, g.brideOrGroom, g.side,
      g.saumyaVidhiHaaldi, g.mahekVidhiHaaldi, g.wedding, g.reception>>

\* csvContent of GuestTable.exportToCSV (part_001)
oldGuestTableCsv(gs) ==
    join(<<join(oldGuestTableHeaders, <<",">>)>>
             \o [i \in 1..Len(gs) |->
                    join([j \in 1..Len(oldGuestTableHeaders) |->
                             quoteCell(oldGuestTableRow(gs[i])[j])], <<",">>)],
         <<"\n">>)

-----------------------------------------------------------------------------
(* Papa.parse(csvText, { header: true, skipEmptyLines: true }) as the hook *)
(* calls it, for texts with ',' as delimiter and '\n' as line break.       *)

\* input.indexOf(ch, from), positions counted from 1, 0 when there is none
RECURSIVE indexOf(_, _, _)
indexOf(input, ch, from) ==
    LET upTo == IF from + 15 < Len(input) THEN from + 15 ELSE Len(input)
        found == {i \in from..upTo : input[i] = ch}
    IN  IF found # {} THEN CHOOSE i \in found : \A j \in found : i <= j
        ELSE IF upTo >= Len(input) THEN 0
        ELSE indexOf(input, ch, upTo + 1)

\* value.replace(/""/g, '"')
RECURSIVE unescapeQuotes(_)
unescapeQuotes(s) ==
    IF Len(s) >= 2 /\ s[1] = quoteChar /\ s[2] = quoteChar
    THEN <<quoteChar>> \o unescapeQuotes(SubSeq(s, 3, Len(s)))
    ELSE IF s = <<>> THEN <<>>
    ELSE <<Head(s)>> \o unescapeQuotes(Tail(s))

\* the number of white-space characters between a closing quote at q and the
\* position upTo, when there is nothing else between them
extraSpaces(input, q, upTo) ==
    IF upTo = 0 THEN 0
    ELSE LET between == SubSeq(input, q + 1, upTo - 1)
         IN  IF between # <<>> /\ trim(between) = <<>> THEN Len(between) ELSE 0

\* the parser's loop within one line: cursor is the start of the next field,
\* row the fields of the line so far, search the position after which the
\* closing quote is looked for (0 outside a quoted field); gives the fields
\* of the line and the start of the next line (0 at the end of the input)
RECURSIVE parseRow(_, _, _, _)
parseRow(input, cursor, search, row) ==
    LET n == Len(input)
    IN  IF search = 0
        THEN IF cursor <= n /\ input[cursor] = quoteChar
             THEN parseRow(input, cursor + 1, cursor, row)
             ELSE LET nextDelim == indexOf(input, ",", cursor)
                      nextNewline == indexOf(input, "\n", cursor)
                  IN  IF nextDelim # 0 /\ (nextDelim < nextNewline \/ nextNewline = 0)
                      THEN parseRow(input, nextDelim + 1, 0,
                               Append(row, SubSeq(input, cursor, nextDelim - 1)))
                      ELSE IF nextNewline # 0
                      THEN [row |-> Append(row, SubSeq(input, cursor, nextNewline - 1)),
                            next |-> nextNewline + 1]
                      ELSE [row |-> Append(row, SubSeq(input, cursor, n)), next |-> 0]
        ELSE LET q == indexOf(input, quoteChar, search + 1)
                 value == unescapeQuotes(SubSeq(input, cursor, q - 1))
                 nextDelim == indexOf(input, ",", q + 1)
                 nextNewline == indexOf(input, "\n", q + 1)
                 checkUpTo == IF nextNewline = 0 THEN nextDelim
                              ELSE IF nextDelim = 0 THEN 0
                              ELSE IF nextDelim < nextNewline THEN nextDelim
                              ELSE nextNewline
                 toDelim == extraSpaces(input, q, checkUpTo)
                 toNewline == extraSpaces(input, q, nextNewline)
             IN  IF q = 0
                 THEN \* no closing quote: the rest of the input is the field
                      [row |-> Append(row, SubSeq(input, cursor, n)), next |-> 0]
                 ELSE IF q = n
                 THEN [row |-> Append(row, value), next |-> 0]
                 ELSE IF input[q + 1] = quoteChar
                 THEN \* a doubled quote inside the field
                      parseRow(input, cursor, q + 1, row)
                 ELSE IF q + 1 + toDelim <= n /\ input[q + 1 + toDelim] = ","
                 THEN parseRow(input, q + 2 + toDelim, 0, Append(row, value))
                 ELSE IF q + 1 + toNewline <= n /\ input[q + 1 + toNewline] = "\n"
                 THEN [row |-> Append(row, value), next |-> q + 2 + toNewline]
                 ELSE \* a quote inside the field: part of its text
                      parseRow(input, cursor, q, row)

\* the lines of the input from cursor on, after the lines in rows
RECURSIVE parseRows(_, _, _)
parseRows(input, cursor, rows) ==
    LET r == parseRow(input, cursor, 0, <<>>)
    IN  IF r.next = 0 THEN Append(rows, r.row)
        ELSE parseRows(input, r.next, Append(rows, r.row))

parsedExtra ==
    <<"_", "_", "p", "a", "r", "s", "e", "d", "_", "e", "x", "t", "r", "a">>

\* one line as an object keyed by the header fields; a line shorter than the
\* header has no property for the missing fields, the surplus of a longer
\* line goes into the array __parsed_extra
rowObject(fields, row) ==
    [j \in 1..(IF Len(row) < Len(fields) THEN Len(row) ELSE Len(fields)) |->
        [key |-> fields[j], value |-> row[j]]]
    \o (IF Len(row) > Len(fields)
        THEN <<[key |-> parsedExtra, value |-> <<"<Array>">>]>>
        ELSE <<>>)

\* results.data
papaParse(csvText) ==
    LET rows == SelectSeq(parseRows(csvText, 1, <<>>),
                          LAMBDA row : ~(Len(row) = 1 /\ row[1] = <<>>))
    IN  IF rows = <<>> THEN <<>>
        ELSE [i \in 1..(Len(rows) - 1) |-> rowObject(rows[1], rows[i + 1])]

-----------------------------------------------------------------------------
(* Countdown cards: FollowUpList.tsx calculateTimeRemaining.  Times are    *)
(* whole milliseconds.  For every deadline a Date can hold and a clock     *)
(* after 1970 the double total / c is nearer to the real quotient than     *)
(* that is to the next whole number, so Math.floor((total / c) % m) is the *)
(* whole quotient modulo m.                                                *)

\* the zero return replaced by the plain difference
calculateTimeRemaining_noClamp(target, current) ==
    LET total == target - current
    IN  [ days |-> total \div 86400000,
          hours |-> (total \div 3600000) % 24,
          minutes |-> (total \div 60000) % 60,
          seconds |-> (total \div 1000) % 60,
          total |-> total ]

\* calculateTimeRemaining(targetDate) called when new Date() is current
calculateTimeRemaining(target, current) ==
    LET total == target - current
    IN  IF total <= 0
        THEN [days |-> 0, hours |-> 0, minutes |-> 0, seconds |-> 0, total |-> 0]
        ELSE [ days |-> total \div (1000 * 60 * 60 * 24),
               hours |-> (total \div (1000 * 60 * 60)) % 24,
               minutes |-> (total \div (1000 * 60)) % 60,
               seconds |-> (total \div 1000) % 60,
               total |-> total ]

-----------------------------------------------------------------------------
(* Inputs of the column resolver.                                          *)

MaxCols ==
    2

MaxPatterns ==
    2

\* headers and patterns: the empty string, one letter in both cases, and
\* longer strings that contain it or not
HeaderPool ==
    {emptyString, <<"a">>, <<"A">>, <<"b">>, <<"a", "A">>, <<"A", "b">>, <<"b", "a">>}

InjectiveSeqs(S, n) ==
    UNION {{s \in [1..k -> S] : \A i, j \in 1..k : i # j => s[i] # s[j]} : k \in 0..n}

\* the row with headers ks whose i-th cell is empty or holds the digit i
ResolverRow(ks, blank) ==
    [i \in 1..Len(ks) |->
        [key |-> ks[i],
         value |-> IF blank[i] THEN emptyString ELSE <<ToString(i)>>]]

PatternLists ==
    UNION {[1..k -> HeaderPool] : k \in 0..MaxPatterns}

-----------------------------------------------------------------------------
(* Inputs of the record parser.                                            *)

MaxRowCols ==
    2

MaxPad ==
    1

hWeddingDay ==
    <<"w", "e", "d", "d", "i", "n", "g", " ", "d", "a", "y">>

ParserHeaders ==
    {hSide, hBride_or_Groom, hRelationship, hFirst_Name, hFirstName, hTitle,
     hRSVP_Wedding, hWedding, hWeddingDay}

ParserValues ==
    {emptyString, sBride, sGroom, sAttending,
     <<"b", "r", "i", "d", "e", " ">>,
     <<" ", "N", "o", "t", " ", "I", "n", "v", "i", "t", "e", "d", " ">>}

\* the row with headers ks and cells vs
ParserRow(ks, vs) ==
    [i \in 1..Len(ks) |-> [key |-> ks[i], value |-> vs[i]]]

StatusBases ==
    {sAttending, sDeclined, sNotInvited, sNoResponse, emptyString,
     <<"a", "t", "t", "e", "n", "d", "i", "n", "g">>,
     <<"A", "T", "T", "E", "N", "D", "I", "N", "G">>,
     <<"n", "o", "t", " ", "i", "n", "v", "i", "t", "e", "d">>,
     <<"N", "o", "t", " ", " ", "I", "n", "v", "i", "t", "e", "d">>,
     <<"N", "o", "t", "I", "n", "v", "i", "t", "e", "d">>,
     <<"M", "a", "y", "b", "e">>,
     <<"A", "t", "t", "e", "n", "d", "i", "n", "g", "!">>}

Pads ==
    UNION {[1..k -> WhiteSpace] : k \in 0..MaxPad}

StatusInputs ==
    {undefined} \cup {l \o b \o r : l \in Pads, b \in StatusBases, r \in Pads}

-----------------------------------------------------------------------------
(* Inputs of the hook: the rows of data.csv and the filter selections.     *)

MaxGuests ==
    2

sFamily ==
    <<"F", "a", "m", "i", "l", "y">>

sFriend ==
    <<"F", "r", "i", "e", "n", "d">>

\* a row in the scraper format of the README
CsvRow(first, last, relationship, side, wed) ==
    <<[key |-> hFirst_Name, value |-> first],
      [key |-> hLast_Name, value |-> last],
      [key |-> hRelationship, value |-> relationship],
      [key |-> hSide, value |-> side],
      [key |-> hRSVP_Wedding, value |-> wed]>>

\* a Bride guest, a Groom guest and a guest with an empty Side cell
CsvRowPool ==
    {CsvRow(<<"A", "b">>, <<"c", "d">>, sFamily, sBride, w) :
        w \in {sAttending, emptyString}}
    \cup {CsvRow(<<"C", "d">>, <<"a">>, sFriend, sGroom, w) :
        w \in {sDeclined, sNotInvited}}
    \cup {CsvRow(<<"b">>, <<"C", "d">>, sFamily, emptyString, w) :
        w \in {sAttending, sNotInvited}}

\* 4 Not Invited, 3 Attending, 1 Declined, 2 No Response
ExampleTen ==
    [i \in 1..10 |->
        CsvRow(<<"A", "b">>, <<"c", "d">>, sFamily, sBride,
               IF i <= 4 THEN sNotInvited
               ELSE IF i <= 7 THEN sAttending
               ELSE IF i = 8 THEN sDeclined
               ELSE sNoResponse)]

\* a file with a row that has only a last name and a row whose cells are
\* not what the parser expects, between two regular rows
ExampleMalformed ==
    <<CsvRow(<<"A", "b">>, <<"c", "d">>, sFamily, sBride, sAttending),
      <<[key |-> hLast_Name, value |-> <<"x">>]>>,
      <<[key |-> hFirst_Name, value |-> <<" ", " ">>],
        [key |-> hSide, value |-> <<"b", "r", "i", "d", "e">>],
        [key |-> hRSVP_Wedding, value |-> <<"m", "a", "y", "b", "e">>]>>,
      CsvRow(<<"C", "d">>, <<"a">>, sFriend, sGroom, sDeclined)>>

CsvFiles ==
    (UNION {[1..k -> CsvRowPool] : k \in 0..MaxGuests}) \cup {ExampleTen, ExampleMalformed}

brideGroomOptions ==
    {sAll, sBride, sGroom}

rsvpStatuses ==
    {sAll, sAttending, sDeclined, sNoResponse, sNotInvited}

SideOptions ==
    {sAll, sFamily, <<"f", "a", "m", "i", "l", "y">>}

Queries ==
    {emptyString, <<"A", "B">>, <<"b", "C">>, <<"b", " ", "c">>, <<"f", "a", "m">>}

-----------------------------------------------------------------------------
(* State machines.                                                         *)

noFilters ==
    [brideOrGroom |-> sAll, rsvpStatus |-> sAll, side |-> sAll,
     searchQuery |-> emptyString]

\* hasActiveFilters looking at the three selections only
hasActiveFilters_ignoresQuery(f) ==
    \/ f.brideOrGroom # sAll
    \/ f.rsvpStatus # sAll
    \/ f.side # sAll

\* FilterBar.tsx hasActiveFilters
hasActiveFilters(f) ==
    \/ f.brideOrGroom # sAll
    \/ f.rsvpStatus # sAll
    \/ f.side # sAll
    \/ f.searchQuery # emptyString

ResolverIdle ==
    /\ raw = <<>>
    /\ patterns = <<>>
    /\ resolved = undefined

\* no parseGuest call has returned yet
noGuest ==
    [none |-> TRUE]

ParserIdle ==
    /\ statusIn = undefined
    /\ statusOut = undefined
    /\ parsed = noGuest

\* no aggregation has returned yet
noStats ==
    [none |-> TRUE]

AggregatorIdle ==
    /\ records = <<>>
    /\ aggregated = noStats
    /\ aggregations = 0

\* the exported file has not been read back
notRead ==
    [none |-> TRUE]

\* GuestTable's useState initial values and the table's initialState
guestTableInitial ==
    [searchQuery |-> emptyString, rsvpFilter |-> sAll, sorting |-> <<>>,
     grouping |-> <<>>, pageIndex |-> 0, pageSize |-> 50]

\* FollowUpList's useState initial values
followUpListInitial ==
    [sortField |-> sSideField, sortDirection |-> sAsc, searchQuery |-> emptyString,
     filterSide |-> sAll, filterRelationship |-> sAll]

\* both views as mounted, no header clicked
ViewStateInit ==
    /\ guestTable = guestTableInitial
    /\ followUpList = followUpListInitial
    /\ clicks = <<>>

\* nothing exported yet
ExportIdle ==
    /\ viewGuests = <<>>
    /\ exportedRows = <<>>
    /\ exportKind = "none"
    /\ csvContent = null
    /\ reparsed = notRead
    /\ ViewStateInit

\* no countdown card mounted
CountdownIdle ==
    /\ now = 0
    /\ targetDate = 0
    /\ timeRemaining = [days |-> 0, hours |-> 0, minutes |-> 0, seconds |-> 0, total |-> 0]
    /\ ticks = 0

\* useGuestData's useState initial values, fetchData started
HookInit ==
    /\ csvData = <<>>
    /\ guests = <<>>
    /\ loading = TRUE
    /\ error = null
    /\ lastUpdated = null
    /\ filters = noFilters
    /\ pc = "fetch"
    /\ aborted = FALSE
    /\ rendered = hookReturn(<<>>, noFilters)

(* ---- the column resolver applied to one row and one pattern list ---- *)

InitResolver ==
    /\ \E ks \in InjectiveSeqs(HeaderPool, MaxCols) :
          \E blank \in [1..Len(ks) -> BOOLEAN] : raw = ResolverRow(ks, blank)
    /\ patterns \in PatternLists
    /\ resolved = undefined
    /\ ParserIdle
    /\ AggregatorIdle
    /\ HookInit
    /\ ExportIdle
    /\ CountdownIdle

Resolve ==
    /\ resolved = undefined
    /\ resolved' = getColumnValue(raw, patterns)
    /\ UNCHANGED <<raw, patterns, parserVars, hookVars, aggregatorVars, exportVars, countdownVars>>

NextResolver ==
    Resolve

SpecResolver ==
    InitResolver /\ [][NextResolver]_vars

(* ---- the status normalisation applied to one value ---- *)

InitStatus ==
    /\ ResolverIdle
    /\ statusIn \in StatusInputs
    /\ statusOut = undefined
    /\ parsed = noGuest
    /\ AggregatorIdle
    /\ HookInit
    /\ ExportIdle
    /\ CountdownIdle

ParseStatus ==
    /\ statusOut = undefined
    /\ statusOut' = parseRSVPStatus(statusIn)
    /\ UNCHANGED <<resolverVars, statusIn, parsed, hookVars, aggregatorVars, exportVars, countdownVars>>

NextStatus ==
    ParseStatus

SpecStatus ==
    InitStatus /\ [][NextStatus]_vars

(* ---- the record parser applied to one row ---- *)

InitParser ==
    /\ \E ks \in InjectiveSeqs(ParserHeaders, MaxRowCols) :
          \E vs \in [1..Len(ks) -> ParserValues] : raw = ParserRow(ks, vs)
    /\ patterns = <<>>
    /\ resolved = undefined
    /\ ParserIdle
    /\ AggregatorIdle
    /\ HookInit
    /\ ExportIdle
    /\ CountdownIdle

ParseGuest ==
    /\ parsed = noGuest
    /\ parsed' = parseGuest(raw)
    /\ UNCHANGED <<resolverVars, statusIn, statusOut, hookVars, aggregatorVars, exportVars, countdownVars>>

NextParser ==
    ParseGuest

SpecParser ==
    InitParser /\ [][NextParser]_vars

(* ---- the hook: load of data.csv, teardown, filter changes ---- *)

Init ==
    /\ ResolverIdle
    /\ ParserIdle
    /\ AggregatorIdle
    /\ HookInit
    /\ ExportIdle
    /\ CountdownIdle

errFetch ==
    <<"Failed to fetch guest data">>

errOther ==
    <<"err.message">>

dateNow ==
    <<"new Date().toLocaleDateString()">>

\* a catch block without the signal.aborted check
Catch_noAbortCheck(message) ==
    error' = message /\ loading' = FALSE

\* a catch block that leaves the spinner on
Catch_keepsLoading(message) ==
    IF aborted
    THEN UNCHANGED <<error, loading>>
    ELSE error' = message /\ UNCHANGED loading

\* the catch block of fetchData
Catch(message) ==
    IF aborted
    THEN UNCHANGED <<error, loading>>
    ELSE error' = message /\ loading' = FALSE

\* await fetch(...) resolves with response.ok
FetchOk ==
    /\ pc = "fetch"
    /\ pc' = "text"
    /\ UNCHANGED <<resolverVars, parserVars, aggregatorVars, exportVars, countdownVars, rendered, csvData, guests, loading, error,
                   lastUpdated, filters, aborted>>

\* await fetch(...) resolves with !response.ok: throw, caught
FetchNotOk ==
    /\ pc = "fetch"
    /\ Catch(errFetch)
    /\ pc' = "done"
    /\ UNCHANGED <<resolverVars, parserVars, aggregatorVars, exportVars, countdownVars, rendered, csvData, guests, lastUpdated,
                   filters, aborted>>

\* await fetch(...) rejects (network failure, or AbortError after abort)
FetchReject ==
    /\ pc = "fetch"
    /\ Catch(errOther)
    /\ pc' = "done"
    /\ UNCHANGED <<resolverVars, parserVars, aggregatorVars, exportVars, countdownVars, rendered, csvData, guests, lastUpdated,
                   filters, aborted>>

\* await response.text() resolves; if (signal.aborted) return; Papa.parse(...)
TextResolve ==
    /\ pc = "text"
    /\ pc' = IF aborted THEN "done" ELSE "parse"
    /\ UNCHANGED <<resolverVars, parserVars, aggregatorVars, exportVars, countdownVars, rendered, csvData, guests, loading, error,
                   lastUpdated, filters, aborted>>

\* await response.text() rejects
TextReject ==
    /\ pc = "text"
    /\ Catch(errOther)
    /\ pc' = "done"
    /\ UNCHANGED <<resolverVars, parserVars, aggregatorVars, exportVars, countdownVars, rendered, csvData, guests, lastUpdated,
                   filters, aborted>>

\* results.data.map(parseGuest) stopping at the first row without a name
mapParseGuest_untilBlank(data) ==
    LET blank == {i \in 1..Len(data) : parseGuest(data[i]).firstName = emptyString}
        stop == IF blank = {} THEN Len(data) + 1
                ELSE CHOOSE i \in blank : \A j \in blank : i <= j
    IN  [i \in 1..(stop - 1) |-> parseGuest(data[i])]

\* results.data.map(parseGuest)
mapParseGuest(data) ==
    [i \in 1..Len(data) |-> parseGuest(data[i])]

\* a complete callback that stores the records and leaves the spinner on
ParseComplete_staysLoading(data) ==
    /\ pc = "parse"
    /\ pc' = "done"
    /\ IF aborted
       THEN UNCHANGED <<csvData, guests, lastUpdated, loading>>
       ELSE /\ csvData' = data
            /\ guests' = mapParseGuest(data)
            /\ lastUpdated' = dateNow
            /\ UNCHANGED loading
    /\ UNCHANGED <<resolverVars, parserVars, aggregatorVars, exportVars, countdownVars, error, filters, aborted>>
    /\ rendered' = hookReturn(guests', filters')

\* Papa.parse complete callback with results.data = data
ParseComplete(data) ==
    /\ pc = "parse"
    /\ pc' = "done"
    /\ IF aborted
       THEN UNCHANGED <<csvData, guests, lastUpdated, loading>>
       ELSE /\ csvData' = data
            /\ guests' = mapParseGuest(data)
            /\ lastUpdated' = dateNow
            /\ loading' = FALSE
    /\ UNCHANGED <<resolverVars, parserVars, aggregatorVars, exportVars, countdownVars, error, filters, aborted>>
    /\ rendered' = hookReturn(guests', filters')

\* Papa.parse error callback
ParseError ==
    /\ pc = "parse"
    /\ pc' = "done"
    /\ Catch(errOther)
    /\ UNCHANGED <<resolverVars, parserVars, aggregatorVars, exportVars, countdownVars, rendered, csvData, guests, lastUpdated,
                   filters, aborted>>

\* the effect cleanup: abortController.abort(), while fetchData is running
\* (once fetchData has returned the signal is never read again)
Unmount ==
    /\ ~aborted
    /\ pc # "done"
    /\ aborted' = TRUE
    /\ UNCHANGED <<resolverVars, parserVars, aggregatorVars, exportVars, countdownVars, rendered, csvData, guests, loading, error,
                   lastUpdated, filters, pc>>

\* the dashboard renders its controls only when mounted, loaded and error-free
ControlsShown ==
    /\ ~aborted
    /\ ~loading
    /\ error = null

\* the error view's Try Again button: window.location.reload(), the page and
\* the hook start again
TryAgain ==
    /\ ~aborted
    /\ ~loading
    /\ error # null
    /\ csvData' = <<>>
    /\ guests' = <<>>
    /\ loading' = TRUE
    /\ error' = null
    /\ lastUpdated' = null
    /\ filters' = noFilters
    /\ pc' = "fetch"
    /\ aborted' = FALSE
    /\ rendered' = hookReturn(<<>>, noFilters)
    /\ UNCHANGED <<resolverVars, parserVars, aggregatorVars, exportVars, countdownVars>>

\* FilterBar: setFilters(f => ({ ...f, searchQuery: e.target.value }))
SetSearchQuery(q) ==
    /\ ControlsShown
    /\ filters' = [filters EXCEPT !.searchQuery = q]
    /\ UNCHANGED <<resolverVars, parserVars, aggregatorVars, exportVars, countdownVars, csvData, guests, loading, error,
                   lastUpdated, pc, aborted>>
    /\ rendered' = hookReturn(guests', filters')

\* FilterBar: setFilters(f => ({ ...f, brideOrGroom: option }))
SetBrideOrGroom(option) ==
    /\ ControlsShown
    /\ filters' = [filters EXCEPT !.brideOrGroom = option]
    /\ UNCHANGED <<resolverVars, parserVars, aggregatorVars, exportVars, countdownVars, csvData, guests, loading, error,
                   lastUpdated, pc, aborted>>
    /\ rendered' = hookReturn(guests', filters')

\* FilterBar: setFilters(f => ({ ...f, rsvpStatus: status }))
SetRsvpStatus(status) ==
    /\ ControlsShown
    /\ filters' = [filters EXCEPT !.rsvpStatus = status]
    /\ UNCHANGED <<resolverVars, parserVars, aggregatorVars, exportVars, countdownVars, csvData, guests, loading, error,
                   lastUpdated, pc, aborted>>
    /\ rendered' = hookReturn(guests', filters')

\* FilterBar: setFilters(f => ({ ...f, side: e.target.value }))
SetSide(side) ==
    /\ ControlsShown
    /\ filters' = [filters EXCEPT !.side = side]
    /\ UNCHANGED <<resolverVars, parserVars, aggregatorVars, exportVars, countdownVars, csvData, guests, loading, error,
                   lastUpdated, pc, aborted>>
    /\ rendered' = hookReturn(guests', filters')

\* FilterBar: clearFilters, the button being rendered while hasActiveFilters
ClearFilters ==
    /\ ControlsShown
    /\ hasActiveFilters(filters)
    /\ filters' = noFilters
    /\ UNCHANGED <<resolverVars, parserVars, aggregatorVars, exportVars, countdownVars, csvData, guests, loading, error,
                   lastUpdated, pc, aborted>>
    /\ rendered' = hookReturn(guests', filters')

Next ==
    \/ FetchOk
    \/ FetchNotOk
    \/ FetchReject
    \/ TextResolve
    \/ TextReject
    \/ \E data \in CsvFiles : ParseComplete(data)
    \/ ParseError
    \/ Unmount
    \/ TryAgain
    \/ \E q \in Queries : SetSearchQuery(q)
    \/ \E option \in brideGroomOptions : SetBrideOrGroom(option)
    \/ \E status \in rsvpStatuses : SetRsvpStatus(status)
    \/ \E side \in SideOptions : SetSide(side)
    \/ ClearFilters

Spec ==
    Init /\ [][Next]_vars

\* the load with its promises settling: the fetch resolves or rejects, the
\* body is read or fails, and the parser calls one of its callbacks
SpecLoad ==
    /\ Init
    /\ [][Next]_vars
    /\ WF_vars(FetchOk \/ FetchNotOk \/ FetchReject)
    /\ WF_vars(TextResolve \/ TextReject)
    /\ WF_vars(pc = "parse" /\ (ParseError \/ \E data \in CsvFiles : ParseComplete(data)))

(* ---- the aggregator applied to a record set ---- *)

\* longest record set handed to the aggregator
MaxRecords ==
    3

\* how often one record set is aggregated
MaxAggregations ==
    2

sConstructor ==
    <<"c", "o", "n", "s", "t", "r", "u", "c", "t", "o", "r">>

\* a canonical record with the given relationship label, group and the
\* statuses of the four events
Record(first, side, group, st) ==
    [ title |-> emptyString,
      firstName |-> first,
      lastName |-> <<"c", "d">>,
      suffix |-> emptyString,
      saumyaVidhiHaaldi |-> st[1],
      mahekVidhiHaaldi |-> st[2],
      wedding |-> st[3],
      reception |-> st[4],
      side |-> side,
      brideOrGroom |-> group,
      email |-> emptyString,
      phone |-> emptyString,
      address |-> emptyString ]

\* every status at every event, every group, labels that are words, numbers
\* and the name of an inherited property
RecordPool ==
    { Record(<<"A">>, sFriend, sBride, <<sAttending, sDeclined, sNoResponse, sNotInvited>>),
      Record(<<"B">>, sFamily, sGroom, <<sDeclined, sNoResponse, sNotInvited, sAttending>>),
      Record(<<"C">>, sFriend, sGroom, <<sNoResponse, sNotInvited, sAttending, sDeclined>>),
      Record(<<"D">>, sFamily, sUnknown, <<sNotInvited, sAttending, sDeclined, sNoResponse>>),
      Record(<<"E">>, <<"2">>, sBride, <<sAttending, sAttending, sAttending, sAttending>>),
      Record(<<"F">>, <<"1">>, sGroom, <<sAttending, sAttending, sDeclined, sDeclined>>),
      Record(<<"G">>, sConstructor, sBride, <<sAttending, sDeclined, sAttending, sDeclined>>) }

\* sides in the order Friend, Family, Friend, Family
ExampleTie ==
    <<Record(<<"A">>, sFriend, sBride, <<sAttending, sDeclined, sNoResponse, sNotInvited>>),
      Record(<<"B">>, sFamily, sGroom, <<sDeclined, sNoResponse, sNotInvited, sAttending>>),
      Record(<<"C">>, sFriend, sGroom, <<sNoResponse, sNotInvited, sAttending, sDeclined>>),
      Record(<<"D">>, sFamily, sUnknown, <<sNotInvited, sAttending, sDeclined, sNoResponse>>)>>

InitAggregator ==
    /\ ResolverIdle
    /\ ParserIdle
    /\ \/ \E k \in 0..MaxRecords : records \in [1..k -> RecordPool]
       \/ records = ExampleTie
    /\ aggregated = noStats
    /\ aggregations = 0
    /\ HookInit
    /\ ExportIdle
    /\ CountdownIdle

\* summaryStats and relationshipStats computed for records
Aggregate ==
    /\ aggregations < MaxAggregations
    /\ aggregated' = [ summaryStats |-> summaryStats(records),
                       relationshipStats |-> relationshipStats(records) ]
    /\ aggregations' = aggregations + 1
    /\ UNCHANGED <<resolverVars, parserVars, hookVars, exportVars, countdownVars, records>>

NextAggregator ==
    Aggregate

SpecAggregator ==
    InitAggregator /\ [][NextAggregator]_vars

(* ---- Export CSV from the guest table and the follow-up list, and the ---- *)
(* ---- exported file read back by the parser                           ---- *)

\* longest list handed to a view
MaxExport ==
    2

\* rows of a source file: a new-format row whose cells hold a double quote, a
\* comma and a line break; a plain row of an attending guest; an old-format
\* row without group; a row with quoted relationship and padded name
ExportSourceRows ==
    { <<[key |-> hTitle, value |-> <<"D", "r">>],
        [key |-> hFirst_Name, value |-> <<"A", "\"", "b">>],
        [key |-> hLast_Name, value |-> <<"c", ",", "d">>],
        [key |-> hSuffix, value |-> <<"J", "r">>],
        [key |-> hRelationship, value |-> sFriend],
        [key |-> hSide, value |-> sBride],
        [key |-> hRSVP_Saumya, value |-> sAttending],
        [key |-> hRSVP_Mahek, value |-> sDeclined],
        [key |-> hRSVP_Reception, value |-> sNotInvited],
        [key |-> hEmail, value |-> <<"a", "@", "b">>],
        [key |-> hAddress, value |-> <<"1", "\n", "X">>]>>,
      <<[key |-> hFirst_Name, value |-> <<"E">>],
        [key |-> hRelationship, value |-> sFamily],
        [key |-> hSide, value |-> sGroom],
        [key |-> hRSVP_Wedding, value |-> sAttending],
        [key |-> hPhone, value |-> <<"5", "5">>]>>,
      <<[key |-> hFirst_Name, value |-> <<"f">>],
        [key |-> hLast_Name, value |-> <<"G">>],
        [key |-> hSide, value |-> sFriend],
        [key |-> hRSVP_Wedding, value |-> emptyString]>>,
      <<[key |-> hFirst_Name, value |-> <<" ", "h">>],
        [key |-> hLast_Name, value |-> <<"i", "\"">>],
        [key |-> hRelationship, value |-> <<"\"", "x", "\"">>],
        [key |-> hSide, value |-> sGroom],
        [key |-> hRSVP_Reception, value |-> sAttending]>> }

\* the canonical records of those rows
ExportPool ==
    {parseGuest(r) : r \in ExportSourceRows}

InitExport ==
    /\ ResolverIdle
    /\ ParserIdle
    /\ AggregatorIdle
    /\ HookInit
    /\ \E k \in 0..MaxExport : viewGuests \in [1..k -> ExportPool]
    /\ exportedRows = <<>>
    /\ exportKind = "none"
    /\ csvContent = null
    /\ reparsed = notRead
    /\ ViewStateInit
    /\ CountdownIdle

ExportGuestTable_allGuests ==
    /\ exportedRows' = viewGuests
    /\ exportKind' = "guest-table"
    /\ csvContent' = guestTableCsv(exportedRows')
    /\ reparsed' = notRead
    /\ UNCHANGED <<resolverVars, parserVars, aggregatorVars, hookVars, countdownVars, viewGuests, viewStateVars>>

\* GuestTable.exportToCSV (part_002)
ExportGuestTable ==
    /\ exportedRows' = tableFilteredGuests(viewGuests, guestTable.searchQuery, guestTable.rsvpFilter)
    /\ exportKind' = "guest-table"
    /\ csvContent' = guestTableCsv(exportedRows')
    /\ reparsed' = notRead
    /\ UNCHANGED <<resolverVars, parserVars, aggregatorVars, hookVars, countdownVars, viewGuests, viewStateVars>>

\* FollowUpList.exportToCSV
ExportFollowUpList ==
    /\ exportedRows' = followUpFilteredGuests(viewGuests, followUpList)
    /\ exportKind' = "follow-up-list"
    /\ csvContent' = followUpCsv(exportedRows')
    /\ reparsed' = notRead
    /\ UNCHANGED <<resolverVars, parserVars, aggregatorVars, hookVars, countdownVars, viewGuests, viewStateVars>>

\* GuestTable.exportToCSV (part_001)
ExportOldGuestTable ==
    /\ exportedRows' = viewGuests
    /\ exportKind' = "old-guest-table"
    /\ csvContent' = oldGuestTableCsv(exportedRows')
    /\ reparsed' = notRead
    /\ UNCHANGED <<resolverVars, parserVars, aggregatorVars, hookVars, countdownVars, viewGuests, viewStateVars>>

\* the exported file parsed again, row by row
Reparse ==
    /\ csvContent # null
    /\ reparsed = notRead
    /\ reparsed' = [data |-> mapParseGuest(papaParse(csvContent))]
    /\ UNCHANGED <<resolverVars, parserVars, aggregatorVars, hookVars, countdownVars, viewGuests, viewStateVars,
                   exportedRows, exportKind, csvContent>>

NextExport ==
    \/ ExportGuestTable
    \/ ExportFollowUpList
    \/ ExportOldGuestTable
    \/ Reparse

SpecExport ==
    InitExport /\ [][NextExport]_vars

(* ---- the guest table (part_002): search, RSVP filter, sorting,     ---- *)
(* ---- grouping, pagination and Export CSV                           ---- *)

\* longest list handed to the table, the two example lists apart
MaxTable ==
    1

\* a record found by its name, one found by its relationship, one found by
\* neither, and one whose first and last name only hold the query when
\* written without the space
TablePool ==
    { Record(<<"D", "a", "n">>, sFriend, sBride,
             <<sAttending, sAttending, sAttending, sAttending>>),
      Record(<<"B", "o">>, <<"F", "A", "N", "c", "l", "u", "b">>, sGroom,
             <<sDeclined, sDeclined, sDeclined, sDeclined>>),
      Record(<<"C", "y">>, sFamily, sBride,
             <<sNoResponse, sNoResponse, sNoResponse, sNoResponse>>),
      [Record(<<"a">>, sFamily, sGroom,
              <<sNotInvited, sNotInvited, sAttending, sNotInvited>>)
          EXCEPT !.lastName = <<"n">>] }

\* the four records of the pool in one list
ExampleSearch ==
    <<Record(<<"D", "a", "n">>, sFriend, sBride,
             <<sAttending, sAttending, sAttending, sAttending>>),
      Record(<<"B", "o">>, <<"F", "A", "N", "c", "l", "u", "b">>, sGroom,
             <<sDeclined, sDeclined, sDeclined, sDeclined>>),
      Record(<<"C", "y">>, sFamily, sBride,
             <<sNoResponse, sNoResponse, sNoResponse, sNoResponse>>),
      [Record(<<"a">>, sFamily, sGroom,
              <<sNotInvited, sNotInvited, sAttending, sNotInvited>>)
          EXCEPT !.lastName = <<"n">>]>>

\* a list that fills more than the smallest page with its attending guests:
\* twenty-eight records, two of them declined
ExampleTwoPages ==
    [i \in 1..28 |->
        Record(<<"G", LowerCase[(i % 26) + 1]>>, IF i % 2 = 0 THEN sFriend ELSE sFamily,
               IF i % 3 = 0 THEN sGroom ELSE sBride,
               IF i % 14 = 0
               THEN <<sDeclined, sDeclined, sDeclined, sDeclined>>
               ELSE <<sAttending, sAttending, sAttending, sAttending>>)]

\* what is typed into the search box
TableQueries ==
    {emptyString, <<"A", "n">>}

\* the options of the RSVP select
RsvpOptions ==
    {sAll, sAttending, sDeclined, sNoResponse}

\* the column whose header is clicked
SortColumns ==
    {sName}

sBrideOrGroomField ==
    <<"b", "r", "i", "d", "e", "O", "r", "G", "r", "o", "o", "m">>

sWeddingField ==
    <<"w", "e", "d", "d", "i", "n", "g">>

\* options of the grouping select: none, Relationship, Wedding RSVP
GroupingOptions ==
    {emptyString, sSideField, sWeddingField}

\* the options of the page-size select
PageSizes ==
    {25, 50, 100, 200}

InitTable ==
    /\ ResolverIdle
    /\ ParserIdle
    /\ AggregatorIdle
    /\ HookInit
    /\ \/ \E k \in 0..MaxTable : viewGuests \in [1..k -> TablePool]
       \/ viewGuests = ExampleSearch
       \/ viewGuests = ExampleTwoPages
    /\ exportedRows = <<>>
    /\ exportKind = "none"
    /\ csvContent = null
    /\ reparsed = notRead
    /\ ViewStateInit
    /\ CountdownIdle

\* the rows the table is given: data: filteredGuests
tableData ==
    tableFilteredGuests(viewGuests, guestTable.searchQuery, guestTable.rsvpFilter)

\* the rows the table paginates: the records, or one row per group when the
\* table is grouped
pageRowCount(data, grouping) ==
    IF grouping = <<>> THEN Len(data)
    ELSE IF grouping[1] = sSideField
    THEN Cardinality({data[i].side : i \in 1..Len(data)})
    ELSE IF grouping[1] = sWeddingField
    THEN Cardinality({data[i].wedding : i \in 1..Len(data)})
    ELSE Cardinality({data[i].brideOrGroom : i \in 1..Len(data)})

\* table.getPageCount()
getPageCount(data, t) ==
    (pageRowCount(data, t.grouping) + t.pageSize - 1) \div t.pageSize

\* the table's state changes leave the hook, the export and the other view alone
TableFrame ==
    UNCHANGED <<resolverVars, parserVars, aggregatorVars, hookVars, countdownVars,
                viewGuests, exportedRows, exportKind, csvContent, reparsed,
                followUpList, clicks>>

\* onChange of the search box and its clear button; new data resets the page
TableSetSearchQuery ==
    /\ \E q \in TableQueries :
          guestTable' = [guestTable EXCEPT !.searchQuery = q, !.pageIndex = 0]
    /\ TableFrame

\* onChange of the RSVP select
TableSetRsvpFilter ==
    /\ \E r \in RsvpOptions :
          guestTable' = [guestTable EXCEPT !.rsvpFilter = r, !.pageIndex = 0]
    /\ TableFrame

\* onChange of the grouping select: e.target.value ? [e.target.value] : []
TableSetGrouping ==
    /\ \E v \in GroupingOptions :
          guestTable' = [guestTable EXCEPT
                            !.grouping = IF Truthy(v) THEN <<v>> ELSE <<>>,
                            !.pageIndex = 0]
    /\ TableFrame

\* a click on a column header: unsorted, ascending, descending, unsorted
TableToggleSorting ==
    /\ \E c \in SortColumns :
          guestTable' = [guestTable EXCEPT
              !.sorting =
                  IF @ = <<>> \/ @[1].id # c THEN <<[id |-> c, desc |-> FALSE]>>
                  ELSE IF ~@[1].desc THEN <<[id |-> c, desc |-> TRUE]>>
                  ELSE <<>>,
              !.pageIndex = 0]
    /\ TableFrame

\* Next, enabled while table.getCanNextPage()
TableNextPage ==
    /\ Len(tableData) > 0
    /\ guestTable.pageIndex < getPageCount(tableData, guestTable) - 1
    /\ guestTable' = [guestTable EXCEPT !.pageIndex = @ + 1]
    /\ TableFrame

\* Prev, enabled while table.getCanPreviousPage()
TablePreviousPage ==
    /\ Len(tableData) > 0
    /\ guestTable.pageIndex > 0
    /\ guestTable' = [guestTable EXCEPT !.pageIndex = @ - 1]
    /\ TableFrame

\* onChange of the page-size select; the first row shown stays on the page
TableSetPageSize ==
    /\ Len(tableData) > 0
    /\ \E size \in PageSizes :
          guestTable' = [guestTable EXCEPT
              !.pageSize = size,
              !.pageIndex = (guestTable.pageIndex * guestTable.pageSize) \div size]
    /\ TableFrame

NextTable ==
    \/ TableSetSearchQuery
    \/ TableSetRsvpFilter
    \/ TableSetGrouping
    \/ TableToggleSorting
    \/ TableNextPage
    \/ TablePreviousPage
    \/ TableSetPageSize
    \/ ExportGuestTable

SpecTable ==
    InitTable /\ [][NextTable]_vars

(* ---- the follow-up list (FollowUpList.tsx): search, side and        ---- *)
(* ---- relationship filters, column sorting and Export CSV            ---- *)

\* longest list handed to the follow-up list, the example list apart
MaxFollowUp ==
    1

\* three guests without a response, of the three groups, whose names differ
\* in case, and a guest who is attending
FollowUpPool ==
    { Record(<<"b", "o", "b">>, sFriend, sGroom,
             <<sAttending, sDeclined, sNoResponse, sNotInvited>>),
      Record(<<"A", "l">>, sFamily, sBride,
             <<sNoResponse, sNoResponse, sNoResponse, sNoResponse>>),
      Record(<<"C", "y">>, sFriend, sUnknown,
             <<sNotInvited, sNotInvited, sNoResponse, sNoResponse>>),
      Record(<<"D", "e", "e">>, sFamily, sBride,
             <<sNoResponse, sNoResponse, sAttending, sNoResponse>>) }

\* every Wedding status in one list, the guests without a response not in
\* the order of any column
ExampleFollowUp ==
    <<Record(<<"b", "o", "b">>, sFriend, sGroom,
             <<sAttending, sDeclined, sNoResponse, sNotInvited>>),
      Record(<<"D", "e", "e">>, sFamily, sBride,
             <<sNoResponse, sNoResponse, sAttending, sNoResponse>>),
      Record(<<"C", "y">>, sFriend, sUnknown,
             <<sNotInvited, sNotInvited, sNoResponse, sNoResponse>>),
      Record(<<"E", "d">>, sFriend, sGroom,
             <<sNoResponse, sNoResponse, sDeclined, sNoResponse>>),
      Record(<<"A", "l">>, sFamily, sBride,
             <<sNoResponse, sNoResponse, sNoResponse, sNoResponse>>),
      Record(<<"F", "a", "y">>, sFamily, sBride,
             <<sNoResponse, sNoResponse, sNotInvited, sNoResponse>>)>>

\* what is typed into the search box of the list
FollowUpQueries ==
    {emptyString, <<"F", "R">>, <<"Y", " ", "C">>}

\* the options of the side select
FilterSideOptions ==
    {sAll, sBride, sGroom}

\* the column headers that sort
SortFields ==
    {sName, sSideField, sRelationship}

InitFollowUp ==
    /\ ResolverIdle
    /\ ParserIdle
    /\ AggregatorIdle
    /\ HookInit
    /\ \/ \E k \in 0..MaxFollowUp : viewGuests \in [1..k -> FollowUpPool]
       \/ viewGuests = ExampleFollowUp
    /\ exportedRows = <<>>
    /\ exportKind = "none"
    /\ csvContent = null
    /\ reparsed = notRead
    /\ ViewStateInit
    /\ CountdownIdle

\* the list's state changes leave the hook, the export and the table alone
FollowUpFrame ==
    UNCHANGED <<resolverVars, parserVars, aggregatorVars, hookVars, countdownVars,
                viewGuests, exportedRows, exportKind, csvContent, reparsed,
                guestTable>>

\* onChange of the search box
FollowUpSetSearchQuery ==
    /\ \E q \in FollowUpQueries :
          followUpList' = [followUpList EXCEPT !.searchQuery = q]
    /\ UNCHANGED clicks
    /\ FollowUpFrame

\* onChange of the side select
SetFilterSide ==
    /\ \E s \in FilterSideOptions :
          followUpList' = [followUpList EXCEPT !.filterSide = s]
    /\ UNCHANGED clicks
    /\ FollowUpFrame

\* onChange of the relationship select, its options being uniqueRelationships
SetFilterRelationship ==
    /\ \E r \in {sAll} \cup uniqueRelationships(viewGuests) :
          followUpList' = [followUpList EXCEPT !.filterRelationship = r]
    /\ UNCHANGED clicks
    /\ FollowUpFrame

\* a click on a column header: handleSort(field)
HandleSort ==
    /\ \E field \in SortFields :
          /\ followUpList' = handleSort(followUpList, field)
          /\ clicks' = IF Len(clicks) < 2 THEN Append(clicks, field)
                       ELSE <<clicks[2], field>>
    /\ FollowUpFrame

NextFollowUp ==
    \/ FollowUpSetSearchQuery
    \/ SetFilterSide
    \/ SetFilterRelationship
    \/ HandleSort
    \/ ExportFollowUpList

SpecFollowUp ==
    InitFollowUp /\ [][NextFollowUp]_vars

(* ---- a countdown card (FollowUpList.tsx CountdownCard): the state  ---- *)
(* ---- initialiser and the interval callback                          ---- *)

\* most calls of the interval callback
MaxTicks ==
    3

\* deadlines, in milliseconds after the first render: passed, now, and
\* around each unit boundary
Targets ==
    { 0 - 86400000, 0 - 1, 0, 1, 999, 1000, 1001, 59999, 60000, 61001,
      3599999, 3600000, 3661001, 86399999, 86400000, 86400001, 90061001,
      172799999, 180122002, 266399999 }

\* milliseconds between two calls of the callback; the interval asks for 1000
Elapsed ==
    {0, 1, 999, 1000, 1001, 60000, 3599000, 86400000}

InitCountdown ==
    /\ ResolverIdle
    /\ ParserIdle
    /\ AggregatorIdle
    /\ HookInit
    /\ ExportIdle
    /\ now = 0
    /\ targetDate \in Targets
    /\ timeRemaining = calculateTimeRemaining(targetDate, now)
    /\ ticks = 0

\* the interval callback, d milliseconds after the previous reading of the
\* clock: setTimeRemaining(calculateTimeRemaining(targetDate))
TimerFires(d) ==
    /\ ticks < MaxTicks
    /\ now' = now + d
    /\ timeRemaining' = calculateTimeRemaining(targetDate, now')
    /\ ticks' = ticks + 1
    /\ UNCHANGED <<resolverVars, parserVars, aggregatorVars, hookVars, exportVars,
                   targetDate>>

NextCountdown ==
    \E d \in Elapsed : TimerFires(d)

SpecCountdown ==
    InitCountdown /\ [][NextCountdown]_vars
-----------------------------------------------------------------------------
(* Properties.                                                             *)

Range(s) ==
    {s[i] : i \in 1..Len(s)}

Min(S) ==
    CHOOSE x \in S : \A y \in S : x <= y

\* pattern is a case-insensitive substring of header
MatchesHeader(pattern, header) ==
    includes(toLowerCase(header), toLowerCase(pattern))

\* the reference resolver of the column-resolver contract
ReferenceResolve(r, pats) ==
    LET headers == {r[j].key : j \in 1..Len(r)}
        exactPats == {i \in 1..Len(pats) : pats[i] \in headers}
        subPats == {i \in 1..Len(pats) :
                        \E j \in 1..Len(r) : MatchesHeader(pats[i], r[j].key)}
    IN  IF exactPats # {}
        THEN LET p == pats[Min(exactPats)]
             IN  r[CHOOSE j \in 1..Len(r) : r[j].key = p].value
        ELSE IF subPats # {}
        THEN LET p == pats[Min(subPats)]
             IN  r[Min({j \in 1..Len(r) : MatchesHeader(p, r[j].key)})].value
        ELSE emptyString

StripsTo(v, lit) ==
    /\ v # undefined
    /\ \E i \in 1..(Len(v) + 1) :
          /\ i + Len(lit) - 1 <= Len(v)
          /\ SubSeq(v, i, i + Len(lit) - 1) = lit
          /\ \A k \in 1..Len(v) :
                (k < i \/ k > i + Len(lit) - 1) => v[k] \in WhiteSpace

RSVPStatus ==
    {sAttending, sDeclined, sNoResponse, sNotInvited}

NoStatusColumn(r, pats) ==
    \A i \in 1..Len(pats) : \A j \in 1..Len(r) : ~MatchesHeader(pats[i], r[j].key)

TrackedEvents ==
    {<<"saumyaVidhiHaaldi", saumyaPatterns>>, <<"mahekVidhiHaaldi", mahekPatterns>>,
     <<"wedding", weddingPatterns>>, <<"reception", receptionPatterns>>}

\* C3: a row without a status column for an event gets No Response for that
\* event, whatever its other columns hold.
C3_MissingColumnIsNoResponse ==
    parsed # noGuest =>
        \A ev \in TrackedEvents :
            NoStatusColumn(raw, ev[2]) => parsed[ev[1]] = sNoResponse

\* C3 witness: a parsed row with two other columns, one holding a status
\* text, and no Wedding column.
C3_Witness ==
    /\ parsed # noGuest
    /\ Len(raw) >= 2
    /\ NoStatusColumn(raw, weddingPatterns)
    /\ \E j \in 1..Len(raw) : raw[j].value = sAttending
    /\ parsed.wedding = sNoResponse

\* C4 (as the README states it): a loaded row with an empty RSVP_Wedding cell
\* is Not Invited, is not in the follow-up list and is not counted as invited.
C4_EmptyCellIsNotInvited ==
    /\ \A i \in 1..Len(guests) :
          Get(csvData[i], hRSVP_Wedding) = emptyString =>
              /\ guests[i].wedding = sNotInvited
              /\ guests[i] \notin Range(noResponseGuests(guests))
    /\ totalInvited(guests) =
          Cardinality({i \in 1..Len(guests) :
              Get(csvData[i], hRSVP_Wedding) \notin {emptyString, sNotInvited}})

\* C5: the group is the Side value when that is Bride or Groom, else the
\* Bride_or_Groom value when that is Bride or Groom, else Unknown.
C5_GroupNormalization ==
    parsed # noGuest =>
        LET direct == Get(raw, hSide)
            legacy == Get(raw, hBride_or_Groom)
        IN  parsed.brideOrGroom =
                IF direct \in {sBride, sGroom} THEN direct
                ELSE IF legacy \in {sBride, sGroom} THEN legacy
                ELSE sUnknown

\* C5 witness: a padded, lower-case label in the legacy column gives Unknown.
C5_Witness ==
    /\ parsed # noGuest
    /\ Get(raw, hSide) = sAttending
    /\ Get(raw, hBride_or_Groom) = <<"b", "r", "i", "d", "e", " ">>
    /\ parsed.brideOrGroom = sUnknown

GuestFields ==
    {"title", "firstName", "lastName", "suffix", "saumyaVidhiHaaldi",
     "mahekVidhiHaaldi", "wedding", "reception", "side", "brideOrGroom",
     "email", "phone", "address"}

IsString(v) ==
    v \notin {undefined, null, TypeError}

\* C6: parseGuest returns a record for every row: four statuses of the status
\* enum, a group of the group enum, every text field a string.
C6_ParseGuestTotal ==
    parsed # noGuest =>
        /\ DOMAIN parsed = GuestFields
        /\ \A ev \in TrackedEvents : parsed[ev[1]] \in RSVPStatus
        /\ parsed.brideOrGroom \in {sBride, sGroom, sUnknown}
        /\ \A fld \in {"title", "firstName", "lastName", "suffix", "side",
                       "email", "phone", "address"} : IsString(parsed[fld])

\* C6 witness: a row whose columns hold values of the wrong kind was parsed.
C6_Witness ==
    /\ parsed # noGuest
    /\ Get(raw, hBride_or_Groom) = sAttending
    /\ Get(raw, hWedding) = sBride
    /\ parsed.brideOrGroom = sUnknown
    /\ parsed.wedding = sNoResponse


\* the records handed to the aggregator and returned as guests
currentFiltered ==
    filteredGuests(guests, filters)

\* the name predicate: the lower-cased query occurs in "first last"
NamePredicate(g, query) ==
    includes(toLowerCase(g.firstName) \o <<" ">> \o toLowerCase(g.lastName),
             toLowerCase(query))

AllPredicatesHold(g, f) ==
    /\ f.brideOrGroom = sAll \/ g.brideOrGroom = f.brideOrGroom
    /\ f.rsvpStatus = sAll \/ g.wedding = f.rsvpStatus
    /\ f.side = sAll \/ g.side = f.side
    /\ f.searchQuery = emptyString \/ NamePredicate(g, f.searchQuery)

\* C7: a record is in the filtered set exactly when the group, status, side
\* and name predicates all hold for it; a record of group Unknown is returned
\* only when the group selection is All.
C7_FilterIsConjunction ==
    /\ \A i \in 1..Len(guests) :
          guests[i] \in Range(currentFiltered) <=> AllPredicatesHold(guests[i], filters)
    /\ Range(currentFiltered) \subseteq Range(guests)
    /\ \A g \in Range(currentFiltered) :
          g.brideOrGroom = sUnknown => filters.brideOrGroom = sAll

\* C7 witness: over [{Bride, Attending}, {Groom, Declined}] the selection
\* group = Bride, status = Attending returns exactly the first record.
C7_Witness ==
    /\ Len(guests) = 2
    /\ guests[1].brideOrGroom = sBride /\ guests[1].wedding = sAttending
    /\ guests[2].brideOrGroom = sGroom /\ guests[2].wedding = sDeclined
    /\ filters.brideOrGroom = sBride /\ filters.rsvpStatus = sAttending
    /\ currentFiltered = <<guests[1]>>

RECURSIVE IsSubsequence(_, _)
IsSubsequence(a, b) ==
    IF a = <<>> THEN TRUE
    ELSE IF b = <<>> THEN FALSE
    ELSE IF Head(a) = Head(b) THEN IsSubsequence(Tail(a), Tail(b))
    ELSE IsSubsequence(a, Tail(b))

\* C8: the filtered set is a subsequence of the record set, and is the whole
\* record set when no predicate is active.
C8_FilterKeepsOrder ==
    /\ IsSubsequence(currentFiltered, guests)
    /\ filters = noFilters => currentFiltered = guests

\* C8 witness: an active filter lets two different records through.
C8_Witness ==
    /\ filters # noFilters
    /\ Len(currentFiltered) >= 2
    /\ currentFiltered[1] # currentFiltered[2]

\* the criteria with only the current query active
queryOnly ==
    [noFilters EXCEPT !.searchQuery = filters.searchQuery]

\* C9 (as stated): the text-query predicate holds exactly when the query is
\* empty or occurs, ignoring case, in first name immediately followed by
\* last name.
C9_QueryOnConcatenation ==
    \A i \in 1..Len(guests) :
        passesFilters(guests[i], queryOnly) <=>
            \/ filters.searchQuery = emptyString
            \/ includes(toLowerCase(guests[i].firstName \o guests[i].lastName),
                        toLowerCase(filters.searchQuery))

\* C9 (amended): the text-query predicate holds exactly when the query is
\* empty or occurs, ignoring case, in first name, one space, last name; no
\* other field is looked at.
C9_QueryOnFullName ==
    \A i \in 1..Len(guests) :
        passesFilters(guests[i], queryOnly) <=>
            \/ filters.searchQuery = emptyString
            \/ NamePredicate(guests[i], filters.searchQuery)

\* C9 witness: a query spanning the space between first and last name
\* selects a record.
C9_Witness ==
    /\ includes(filters.searchQuery, <<" ">>)
    /\ \E i \in 1..Len(guests) :
          /\ passesFilters(guests[i], queryOnly)
          /\ ~includes(toLowerCase(guests[i].firstName \o guests[i].lastName),
                       toLowerCase(filters.searchQuery))

WeddingCount(fg, statuses) ==
    Cardinality({i \in 1..Len(fg) : fg[i].wedding \in statuses})

\* C10: responseRate is 100 * (Wedding Attending or Declined) / (Wedding not
\* Not Invited), and 0 when no record is invited; it is 100*4/6 for 4 Not
\* Invited, 3 Attending, 1 Declined, 2 No Response.
C10_ResponseRate ==
    LET rate == summaryStats(currentFiltered).responseRate
        responded == WeddingCount(currentFiltered, {sAttending, sDeclined})
        invited == WeddingCount(currentFiltered, RSVPStatus \ {sNotInvited})
    IN  /\ rate.den # 0
        /\ IF invited = 0
           THEN rate.num = 0
           ELSE rate.num * invited = 100 * responded * rate.den
        /\ ( /\ Len(currentFiltered) = 10
             /\ WeddingCount(currentFiltered, {sNotInvited}) = 4
             /\ WeddingCount(currentFiltered, {sAttending}) = 3
             /\ WeddingCount(currentFiltered, {sDeclined}) = 1
             /\ WeddingCount(currentFiltered, {sNoResponse}) = 2 )
           => rate.num * 6 = 400 * rate.den

\* C10 witness: the ten records of the example, rate 100*4/6.
C10_Witness ==
    /\ Len(currentFiltered) = 10
    /\ WeddingCount(currentFiltered, {sNotInvited}) = 4
    /\ WeddingCount(currentFiltered, {sAttending}) = 3
    /\ WeddingCount(currentFiltered, {sDeclined}) = 1
    /\ WeddingCount(currentFiltered, {sNoResponse}) = 2
    /\ summaryStats(currentFiltered).responseRate.num * 6
          = 400 * summaryStats(currentFiltered).responseRate.den

\* C10 witness of the zero denominator: every record is Not Invited.
C10_WitnessZero ==
    /\ Len(currentFiltered) >= 1
    /\ WeddingCount(currentFiltered, {sNotInvited}) = Len(currentFiltered)
    /\ summaryStats(currentFiltered).responseRate.num = 0


-----------------------------------------------------------------------------
(* Aggregator properties.                                                  *)

\* the positions of the records of rs that satisfy status st at event key
WithStatus(rs, key, st) ==
    {i \in 1..Len(rs) : rs[i][key] = st}

EventOrder ==
    <<<<"saumyaVidhiHaaldi", hSaumya>>, <<"mahekVidhiHaaldi", hMahek>>,
      <<"wedding", hWedding>>, <<"reception", hReception>>>>

\* C11: the aggregator returns one breakdown per tracked event, in the order
\* Saumya's Vidhi & Haaldi, Mahek's Vidhi & Haaldi, Wedding, Reception; the
\* four status counts are the numbers of records with that status at the
\* event, and brideAttending / groomAttending the numbers of Attending
\* records of the event whose group is Bride / Groom.
C11_EventBreakdowns ==
    aggregated # noStats =>
        LET es == aggregated.summaryStats.eventStats
        IN  /\ Len(es) = 4
            /\ \A i \in 1..4 :
                 LET key == EventOrder[i][1]
                     att == WithStatus(records, key, sAttending)
                 IN  /\ es[i].event = EventOrder[i][2]
                     /\ es[i].attending = Cardinality(att)
                     /\ es[i].declined = Cardinality(WithStatus(records, key, sDeclined))
                     /\ es[i].noResponse = Cardinality(WithStatus(records, key, sNoResponse))
                     /\ es[i].notInvited = Cardinality(WithStatus(records, key, sNotInvited))
                     /\ es[i].brideAttending =
                            Cardinality({j \in att : records[j].brideOrGroom = sBride})
                     /\ es[i].groomAttending =
                            Cardinality({j \in att : records[j].brideOrGroom = sGroom})

\* C11 witness: an aggregated record set in which the four events have
\* different counts, with a Bride guest who attends one event and not another
\* and a guest of unknown group.
C11_Witness ==
    /\ aggregated # noStats
    /\ Len(records) >= 3
    /\ \E j \in 1..Len(records) : records[j].brideOrGroom = sUnknown
    /\ \E j \in 1..Len(records) :
          /\ records[j].brideOrGroom = sBride
          /\ records[j].saumyaVidhiHaaldi = sAttending
          /\ records[j].wedding # sAttending
    /\ LET es == aggregated.summaryStats.eventStats
       IN  /\ es[1].attending # es[3].attending
           /\ es[1].brideAttending >= 1
           /\ es[4].groomAttending >= 1
           /\ es[1].notInvited >= 1

\* the position at which a side value first occurs in rs
FirstSeen(rs, side) ==
    CHOOSE i \in 1..Len(rs) :
        /\ rs[i].side = side
        /\ \A j \in 1..(i - 1) : rs[j].side # side

\* C12: the relationship breakdown lists each distinct side value once, with
\* its number of records, by count descending, and sides with equal counts
\* in the order in which they first occur in the record set.
C12_TieBreakFirstEncountered ==
    aggregated # noStats =>
        LET rs == aggregated.relationshipStats
        IN  /\ {rs[i].relationship : i \in 1..Len(rs)} =
                   {records[j].side : j \in 1..Len(records)}
            /\ \A i \in 1..Len(rs) :
                 rs[i].count =
                     Cardinality({j \in 1..Len(records) : records[j].side = rs[i].relationship})
            /\ \A i, k \in 1..Len(rs) :
                 i < k =>
                     /\ rs[i].relationship # rs[k].relationship
                     /\ rs[i].count >= rs[k].count
                     /\ rs[i].count = rs[k].count =>
                            FirstSeen(records, rs[i].relationship)
                                < FirstSeen(records, rs[k].relationship)

-----------------------------------------------------------------------------
(* Export properties.                                                      *)

IdentityFields ==
    {"title", "firstName", "lastName", "suffix", "saumyaVidhiHaaldi", "mahekVidhiHaaldi",
     "wedding", "reception", "side", "brideOrGroom"}

ContactFields ==
    {"email", "phone", "address"}

\* the two lists have the same length and agree, position by position, on
\* the given fields
SameOn(fields, a, b) ==
    /\ Len(a) = Len(b)
    /\ \A i \in 1..Len(a) : \A f \in fields : a[i][f] = b[i][f]

Has(s, ch) ==
    \E i \in 1..Len(s) : s[i] = ch

C13_WitnessFollowUp ==
    /\ reparsed # notRead
    /\ exportKind = "follow-up-list"
    /\ \E i \in 1..Len(exportedRows) :
          /\ exportedRows[i].title # emptyString
          /\ exportedRows[i].saumyaVidhiHaaldi = sAttending
          /\ Has(exportedRows[i].firstName, quoteChar)

\* the columns an export writes for a record
ExportedCells(kind, g) ==
    IF kind = "guest-table" THEN guestTableRow(g)
    ELSE IF kind = "follow-up-list" THEN followUpRow(g)
    ELSE oldGuestTableRow(g)

\* a cell between double quotes, each double quote of the cell written twice
RECURSIVE QuotedCell(_)
QuotedCell(cell) ==
    <<quoteChar>>
        \o (IF cell = <<>> THEN <<>>
            ELSE LET rest == QuotedCell(Tail(cell))
                 IN  (IF Head(cell) = quoteChar THEN <<quoteChar, quoteChar>>
                      ELSE <<Head(cell)>>) \o SubSeq(rest, 2, Len(rest) - 1))
        \o <<quoteChar>>

\* the lines of text after the header line, each the given number of cells
RECURSIVE DataLines(_, _)
DataLines(rows, kind) ==
    IF rows = <<>> THEN <<>>
    ELSE LET cells == ExportedCells(kind, Head(rows))
         IN  <<"\n">>
                 \o join([j \in 1..Len(cells) |-> QuotedCell(cells[j])], <<",">>)
                 \o DataLines(Tail(rows), kind)

\* C14 as stated: after every export action of the repository, the text
\* below the header line is, for each exported record, its cells between
\* double quotes with every double quote inside doubled.
C14_EveryExportEscapes ==
    csvContent # null =>
        \E h \in 0..Len(csvContent) :
            /\ ~Has(SubSeq(csvContent, 1, h), "\n")
            /\ SubSeq(csvContent, h + 1, Len(csvContent)) = DataLines(exportedRows, exportKind)

-----------------------------------------------------------------------------
(* Load properties.                                                        *)

\* C15: once the effect cleanup has aborted the request, no step of the
\* load (fetch resolving, rejecting or not OK, body text read or failing,
\* parse complete or error) writes guests, lastUpdated, error or loading.
C15_NoWriteAfterTeardown ==
    [][aborted => UNCHANGED <<guests, lastUpdated, error, loading>>]_vars

\* C15 witness: the view was torn down during the load and the load has run
\* to its end, nothing having been written.
C15_Witness ==
    /\ aborted
    /\ pc = "done"
    /\ loading
    /\ error = null
    /\ guests = <<>>
    /\ lastUpdated = null

\* C16: a failing load of a mounted view (fetch rejected, response not OK,
\* body unreadable, parser error) ends with error set, loading false and no
\* records; an error state has these properties for as long as it lasts, the
\* load never starts again by itself, and the only step out of the error
\* state is Try Again.
C16_TerminalErrorState ==
    /\ [](error # null => (~loading /\ guests = <<>> /\ pc = "done"))
    /\ [][/\ ((FetchNotOk \/ FetchReject \/ TextReject \/ ParseError) /\ ~aborted)
               => (error' # null /\ ~loading' /\ guests' = <<>> /\ pc' = "done")
          /\ (pc = "done" /\ pc' # "done") => TryAgain
          /\ (error # null /\ error' # error) => TryAgain]_vars

\* C16 witness: the response was not OK and the hook sits in the error state.
C16_Witness ==
    /\ error = errFetch
    /\ ~loading
    /\ ~aborted
    /\ pc = "done"
    /\ guests = <<>>

\* C17: a loaded file of N rows gives N records, the i-th being parseGuest of
\* the i-th row with all its fields, whatever the other rows hold.
C17_OneRecordPerRow ==
    /\ Len(guests) = Len(csvData)
    /\ \A i \in 1..Len(csvData) :
          /\ guests[i] = parseGuest(csvData[i])
          /\ DOMAIN guests[i] = GuestFields

\* C17 witness: the file with a row without first name and a row of
\* unexpected cells between two regular rows, loaded: four records, defaults
\* in the second and third, the fourth parsed as usual.
C17_Witness ==
    /\ csvData = ExampleMalformed
    /\ Len(guests) = 4
    /\ guests[2].firstName = emptyString
    /\ guests[2].side = sUnknown
    /\ guests[3].wedding = sNoResponse
    /\ guests[3].brideOrGroom = sUnknown
    /\ guests[4].wedding = sDeclined
    /\ guests[4].brideOrGroom = sGroom

\* C18: in every state the guests, summaryStats and relationshipStats that
\* useGuestData returned last are those of the records of the current record
\* set that pass the current filters, and totalGuests is their number.
C18_StatsFollowFilters ==
    LET fg == filteredGuests(guests, filters)
    IN  /\ rendered.guests = fg
        /\ rendered.summaryStats = summaryStats(fg)
        /\ rendered.relationshipStats = relationshipStats(fg)
        /\ rendered.summaryStats.totalGuests = Len(fg)

\* C18 witness: after the load and a filter change that keeps some records
\* and drops others, the returned statistics count the kept ones only.
C18_Witness ==
    /\ filters # noFilters
    /\ Len(guests) >= 2
    /\ Len(rendered.guests) >= 1
    /\ Len(rendered.guests) < Len(guests)
    /\ rendered.summaryStats.totalGuests = Len(rendered.guests)
    /\ rendered.summaryStats.totalAttending >= 1

-----------------------------------------------------------------------------
(* Header schemes.                                                         *)

\* C20 as stated: in a new-format row (Side is Bride or Groom) the group is
\* the Side value and the relationship label is the Relationship value,
\* never the Side value; in an old-format row (Side holds the relationship
\* type, no Relationship column) the label is the Side value and the group
\* comes from Bride_or_Groom.
C20_RelationshipApartFromGroup ==
    parsed # noGuest =>
        LET direct == Get(raw, hSide)
            relationship == Get(raw, hRelationship)
            legacy == Get(raw, hBride_or_Groom)
        IN  /\ direct \in {sBride, sGroom} =>
                  /\ parsed.brideOrGroom = direct
                  /\ Truthy(relationship) => parsed.side = relationship
                  /\ ~Truthy(relationship) => parsed.side # direct
            /\ (Truthy(direct) /\ direct \notin {sBride, sGroom} /\ relationship = undefined) =>
                  /\ parsed.side = direct
                  /\ parsed.brideOrGroom =
                         IF legacy \in {sBride, sGroom} THEN legacy ELSE sUnknown

-----------------------------------------------------------------------------
(* Guest table properties.                                                 *)

\* the guest-table predicate: the query is empty or occurs, ignoring case, in
\* "first last" or in the relationship, and the RSVP selection is All or the
\* Wedding status
TableShows(g, t) ==
    /\ \/ t.searchQuery = emptyString
       \/ NamePredicate(g, t.searchQuery)
       \/ includes(toLowerCase(g.side), toLowerCase(t.searchQuery))
    /\ t.rsvpFilter = sAll \/ g.wedding = t.rsvpFilter

\* the elements of gs at the positions I, in the order of gs
AtIndices(gs, I) ==
    [k \in 1..Cardinality(I) |->
        gs[CHOOSE i \in I : Cardinality({j \in I : j <= i}) = k]]

\* the records of the table's list that pass its current search and RSVP filter
passingRecords ==
    AtIndices(viewGuests, {i \in 1..Len(viewGuests) : TableShows(viewGuests[i], guestTable)})

\* C21: the guest table shows a record exactly when (the query is empty, or
\* occurs ignoring case in "first last", or occurs ignoring case in the side)
\* and (the RSVP selection is All or equals the Wedding status); the shown
\* records are in the order of the input.
C21_TableFilter ==
    tableData = passingRecords

\* C21 witness: with a query and an RSVP selection active, a record is shown
\* because of its side only, and another record is hidden.
C21_Witness ==
    /\ guestTable.searchQuery # emptyString
    /\ guestTable.rsvpFilter # sAll
    /\ Len(tableData) < Len(viewGuests)
    /\ \E i \in 1..Len(tableData) :
          /\ ~NamePredicate(tableData[i], guestTable.searchQuery)
          /\ includes(toLowerCase(tableData[i].side), toLowerCase(guestTable.searchQuery))

\* the row of the table's file that holds the record g, as the reader gives it
DataRow(g) ==
    [j \in 1..Len(guestTableHeaders) |->
        [key |-> guestTableHeaders[j], value |-> guestTableRow(g)[j]]]

\* C23: every Export CSV of the guest table writes a file which, read row by
\* row, holds exactly the records that pass the table's current search and
\* RSVP filter, one row each and in order, whatever the page, page size,
\* grouping and sorting are.
C23_ExportIsFilteredView ==
    [][csvContent' # csvContent =>
          /\ exportKind' = "guest-table"
          /\ guestTable' = guestTable
          /\ papaParse(csvContent') =
                 [k \in 1..Len(passingRecords) |-> DataRow(passingRecords[k])]]_vars

\* C23 witness: an export made on the second page of the sorted table, with a
\* filter that hides some records and more rows passing than a page holds.
C23_Witness ==
    /\ exportKind = "guest-table"
    /\ exportedRows = tableData
    /\ guestTable.pageIndex = 1
    /\ guestTable.sorting # <<>>
    /\ guestTable.rsvpFilter # sAll
    /\ Len(exportedRows) > guestTable.pageSize
    /\ Len(exportedRows) < Len(viewGuests)

\* C23 witness of the grouped table: an export of the grouped table, with a
\* query that hides some records.
C23_WitnessGrouped ==
    /\ exportKind = "guest-table"
    /\ exportedRows = tableData
    /\ guestTable.grouping # <<>>
    /\ guestTable.searchQuery # emptyString
    /\ Len(exportedRows) >= 1
    /\ Len(exportedRows) < Len(viewGuests)

-----------------------------------------------------------------------------
(* Follow-up list properties.                                              *)

\* the rows of the follow-up list in its current state
listedGuests ==
    followUpFilteredGuests(viewGuests, followUpList)

\* the follow-up predicates: no Wedding response, the query empty or found in
\* the name or the relationship, the side and the relationship selected
FollowUpShows(g, st) ==
    /\ g.wedding = sNoResponse
    /\ \/ st.searchQuery = emptyString
       \/ NamePredicate(g, st.searchQuery)
       \/ includes(toLowerCase(g.side), toLowerCase(st.searchQuery))
    /\ st.filterSide = sAll \/ g.brideOrGroom = st.filterSide
    /\ st.filterRelationship = sAll \/ g.side = st.filterRelationship

\* the two lists hold the same elements the same number of times
IsPermutation(a, b) ==
    /\ Len(a) = Len(b)
    /\ \A x \in Range(a) \cup Range(b) :
          Cardinality({i \in 1..Len(a) : a[i] = x}) = Cardinality({i \in 1..Len(b) : b[i] = x})

\* C22: whatever has been searched, filtered and sorted, the follow-up list
\* is a permutation of the guests with Wedding status No Response that
\* satisfy the active search, side and relationship predicates, and every
\* guest listed or exported by the list has Wedding status No Response.
C22_FollowUpIsNoResponse ==
    /\ IsPermutation(listedGuests,
           AtIndices(viewGuests,
               {i \in 1..Len(viewGuests) : FollowUpShows(viewGuests[i], followUpList)}))
    /\ \A i \in 1..Len(listedGuests) : listedGuests[i].wedding = sNoResponse
    /\ exportKind = "follow-up-list" =>
          \A i \in 1..Len(exportedRows) :
              /\ exportedRows[i].wedding = sNoResponse
              /\ exportedRows[i] \in Range(viewGuests)

\* C22 witness: the list sorted by name, descending, with a query active,
\* lists two guests in another order than they came in and has been
\* exported, while the input also holds guests who have responded.
C22_Witness ==
    /\ followUpList.sortField = sName
    /\ followUpList.sortDirection = sDesc
    /\ followUpList.searchQuery # emptyString
    /\ Len(listedGuests) >= 2
    /\ ~IsSubsequence(listedGuests, viewGuests)
    /\ exportKind = "follow-up-list"
    /\ exportedRows = listedGuests
    /\ \E i \in 1..Len(viewGuests) : viewGuests[i].wedding = sAttending
    /\ \E i \in 1..Len(viewGuests) : viewGuests[i].wedding = sDeclined
    /\ \E i \in 1..Len(viewGuests) : viewGuests[i].wedding = sNotInvited

sortState ==
    <<followUpList.sortField, followUpList.sortDirection>>

\* the last two recorded clicks were on the same column
LastTwoClicksSame ==
    Len(clicks) >= 2 /\ clicks[Len(clicks)] = clicks[Len(clicks) - 1]

\* C27 as stated: after any sequence of clicks the direction is desc only if
\* the last two or more clicks were on the same field.
C27_DescOnlyAfterTwoClicks ==
    followUpList.sortDirection = sDesc => LastTwoClicksSame

\* C27: sorting starts at (side, asc); a click on the current field flips the
\* direction and keeps the field, a click on another field selects it with
\* direction asc, and nothing else changes the pair.  The direction is desc
\* only if the last click was on the current field and either the click
\* before it was too or it was the first click and the field is side.  Two
\* clicks on the current field restore the pair; two clicks on another field
\* leave that field with direction desc.
C27_SortMachine ==
    /\ sortState = <<sSideField, sAsc>>
    /\ [][sortState' # sortState =>
             LET field == clicks'[Len(clicks')]
             IN  /\ followUpList'.sortField = field
                 /\ followUpList'.searchQuery = followUpList.searchQuery
                 /\ followUpList'.filterSide = followUpList.filterSide
                 /\ followUpList'.filterRelationship = followUpList.filterRelationship
                 /\ IF field = followUpList.sortField
                    THEN followUpList'.sortDirection # followUpList.sortDirection
                    ELSE followUpList'.sortDirection = sAsc]_vars
    /\ [](/\ followUpList.sortDirection \in {sAsc, sDesc}
          /\ followUpList.sortDirection = sDesc =>
                /\ clicks # <<>>
                /\ clicks[Len(clicks)] = followUpList.sortField
                /\ LastTwoClicksSame \/ (Len(clicks) = 1 /\ followUpList.sortField = sSideField)
          /\ \A f \in SortFields :
                handleSort(handleSort(followUpList, f), f) =
                    IF f = followUpList.sortField THEN followUpList
                    ELSE [followUpList EXCEPT !.sortField = f, !.sortDirection = sDesc])

\* C27 witness: one click on the side column, the first click of all, has
\* made the direction desc.
C27_Witness ==
    /\ clicks = <<sSideField>>
    /\ sortState = <<sSideField, sDesc>>

-----------------------------------------------------------------------------
(* Totals, rates and the relationship breakdown.                           *)

\* the breakdown of the Wedding event in eventStats
WeddingBreakdown(stats) ==
    stats.eventStats[CHOOSE i \in 1..Len(stats.eventStats) :
                         stats.eventStats[i].event = hWedding]

\* C24: for every tracked event the four status counts add up to
\* totalGuests, the number of records; totalAttending, totalDeclined and
\* totalNoResponse are the attending, declined and noResponse counts of the
\* Wedding breakdown.
C24_CountsPartition ==
    aggregated # noStats =>
        LET s == aggregated.summaryStats
            w == WeddingBreakdown(s)
        IN  /\ s.totalGuests = Len(records)
            /\ \A i \in 1..Len(s.eventStats) :
                  s.eventStats[i].attending + s.eventStats[i].declined
                      + s.eventStats[i].noResponse + s.eventStats[i].notInvited
                      = s.totalGuests
            /\ s.totalAttending = w.attending
            /\ s.totalDeclined = w.declined
            /\ s.totalNoResponse = w.noResponse

\* C24 witness: an aggregated record set with every Wedding status present.
C24_Witness ==
    /\ aggregated # noStats
    /\ LET w == WeddingBreakdown(aggregated.summaryStats)
       IN  /\ w.attending >= 1
           /\ w.declined >= 1
           /\ w.noResponse >= 1
           /\ w.notInvited >= 1
           /\ aggregated.summaryStats.totalAttending = w.attending

\* the quotient lies between 0 and 100
IsPercentage(q) ==
    /\ q.den > 0
    /\ 0 <= q.num
    /\ q.num <= 100 * q.den

\* C25: the responseRate of the hook is the number the summary cards compute
\* for the Wedding event, and both are between 0 and 100.
C25_RatesAgree ==
    aggregated # noStats =>
        LET hook == aggregated.summaryStats.responseRate
            card == eventCardRate(WeddingBreakdown(aggregated.summaryStats))
        IN  /\ hook.num * card.den = card.num * hook.den
            /\ IsPercentage(hook)
            /\ IsPercentage(card)
            /\ \A i \in 1..Len(aggregated.summaryStats.eventStats) :
                  IsPercentage(eventCardRate(aggregated.summaryStats.eventStats[i]))

\* C25 witness: a record set with a Wedding response, a record without
\* response and a record that is not invited: the rate is strictly between 0
\* and 100 and is not the rate over all records.
C25_Witness ==
    /\ aggregated # noStats
    /\ LET hook == aggregated.summaryStats.responseRate
           w == WeddingBreakdown(aggregated.summaryStats)
       IN  /\ w.notInvited >= 1
           /\ 0 < hook.num
           /\ hook.num < 100 * hook.den
           /\ hook.num * Len(records) # 100 * (w.attending + w.declined) * hook.den

\* C30: the relationship breakdown has exactly one entry for each side value
\* that occurs in the record set, every count is at least 1, and the counts
\* add up to the number of records.
C30_OneEntryPerSide ==
    aggregated # noStats =>
        LET rs == aggregated.relationshipStats
            Sum[k \in 0..Len(rs)] == IF k = 0 THEN 0 ELSE Sum[k - 1] + rs[k].count
        IN  /\ \A j \in 1..Len(records) :
                  Cardinality({i \in 1..Len(rs) : rs[i].relationship = records[j].side}) = 1
            /\ \A i \in 1..Len(rs) :
                  /\ rs[i].count >= 1
                  /\ \E j \in 1..Len(records) : records[j].side = rs[i].relationship
            /\ Sum[Len(rs)] = Len(records)

-----------------------------------------------------------------------------
(* Filter bar properties.                                                  *)

FilterFields ==
    {"brideOrGroom", "rsvpStatus", "side", "searchQuery"}

\* the fields of the criteria in which f and g differ
ChangedFields(f, g) ==
    {k \in FilterFields : f[k] # g[k]}

-----------------------------------------------------------------------------
(* Load state machine.                                                     *)

\* C26: the load starts with loading true, no error, no lastUpdated and no
\* records; loading goes from true to false and, within one load, never
\* back: the only step that sets it again is Try Again, the page reload
\* after an error, which starts the hook afresh; while loading is false
\* exactly one of error and lastUpdated is set, and error is set only while
\* there are no records; with the fetch, the body and the parser answering,
\* loading becomes false unless the view is unmounted first.
C26_LoadStateMachine ==
    /\ (loading = TRUE /\ error = null /\ lastUpdated = null /\ guests = <<>>)
    /\ [][/\ (~loading /\ loading') =>
                 /\ error # null
                 /\ error' = null /\ lastUpdated' = null /\ guests' = <<>>
                 /\ pc' = "fetch" /\ ~aborted'
          /\ (loading /\ ~loading') => ~aborted]_vars
    /\ [](/\ ~loading => ((error # null) # (lastUpdated # null))
          /\ loading => (error = null /\ lastUpdated = null /\ guests = <<>>)
          /\ error # null => guests = <<>>)
    /\ ((loading = TRUE) ~> (loading = FALSE \/ aborted = TRUE))

\* C26 witness: a load has ended with records, lastUpdated set and no error.
C26_Witness ==
    /\ ~loading
    /\ ~aborted
    /\ error = null
    /\ lastUpdated # null
    /\ Len(guests) >= 1
    /\ pc = "done"

-----------------------------------------------------------------------------
(* Countdown properties.                                                   *)

\* C29: with the deadline not after the current time the card holds days =
\* hours = minutes = seconds = total = 0; otherwise total is the difference
\* in milliseconds, hours is within 0..23, minutes and seconds within 0..59,
\* days is not negative and days, hours, minutes and seconds account for
\* total up to less than one second.  From one reading of the clock to the
\* next, the clock not going back, total never increases, and it stays 0
\* once it is 0.
C29_TimeRemaining ==
    /\ [](LET t == timeRemaining
              sum == t.days * 86400000 + t.hours * 3600000 + t.minutes * 60000
                        + t.seconds * 1000
          IN  IF targetDate - now <= 0
              THEN t = [days |-> 0, hours |-> 0, minutes |-> 0, seconds |-> 0, total |-> 0]
              ELSE /\ t.total = targetDate - now
                   /\ t.hours \in 0..23
                   /\ t.minutes \in 0..59
                   /\ t.seconds \in 0..59
                   /\ t.days >= 0
                   /\ sum <= t.total
                   /\ t.total < sum + 1000)
    /\ [][/\ now' >= now
          /\ timeRemaining'.total <= timeRemaining.total
          /\ timeRemaining.total = 0 => timeRemaining'.total = 0]_vars

\* C29 witness: after a callback more than a day, an hour, a minute and a
\* second are left, with a fraction of a second.
C29_Witness ==
    /\ ticks >= 1
    /\ now > 0
    /\ timeRemaining.days >= 1
    /\ timeRemaining.hours >= 1
    /\ timeRemaining.minutes >= 1
    /\ timeRemaining.seconds >= 1
    /\ timeRemaining.total % 1000 # 0

\* C29 witness of the passed deadline: the clock has moved beyond a deadline
\* that was ahead at the first render, and the card shows zero.
C29_WitnessPassed ==
    /\ targetDate > 0
    /\ now > targetDate
    /\ ticks >= 2
    /\ timeRemaining.total = 0
    /\ timeRemaining.seconds = 0
=============================================================================
